---- MODULE Spec2Model ----
(***************************************************************************)
(* A model of ALSACtlCard (src/ctl/card.c): the control-device session of  *)
(* alsa-gobject.  The session's handlers are modelled one by one, each     *)
(* against a model of the kernel side of the ioctl(2) it issues:           *)
(*   - the element listing (allocate_elem_ids, get_elem_id_list),          *)
(*   - the TLV read / write / command calls,                               *)
(*   - the addition / replacement of user-defined elements,                *)
(*   - the event source (GSource) and its subscription counter.            *)
(* The kernel is the environment: between two ioctls of one call it may    *)
(* change, and it may reject any ioctl with an errno.                      *)
(***************************************************************************)
EXTENDS Integers, Sequences, FiniteSets, TLC

VARIABLES
    \* ---- element listing -------------------------------------------------
    kfirst,      \* kernel: numid of the first element of the card
    kcount,      \* kernel: number of elements of the card (controls_count)
    list,        \* struct snd_ctl_elem_list of the running call
    ids,         \* the array calloc'ed by allocate_elem_ids (0 = zeroed entry)
    idsAlloc,    \* "none" | "live" | "freed" (the array was passed to free())
    entries,     \* GList **entries handed back to the caller
    listErr,     \* GError **error: "none" or the errno it carries
    listPc,      \* "idle" | "phase2" | "done" | "crashed"
    listLog,     \* the ELEM_LIST ioctls of the running call, see ListIoctl
    listCount1,  \* the count the phase-1 query reported
    listRaced,   \* the kernel's element set changed during the running call
    oob,         \* the kernel wrote past the end of the calloc'ed array
    \* ---- TLV read / write / command --------------------------------------
    tlvBackend,     \* kernel: "echo" (stores what is written) | "any"
    tlvStore,       \* kernel: the payload bytes stored per numid
    tlvWritten,     \* per numid, the quadlets the caller wrote last to the
                    \* echoing backend
    tlvOp,          \* "none" | "write" | "read" | "command": the last call
    tlvId,          \* elem_id->numid of the last call
    tlvNull,        \* *container is NULL
    tlvEntry,       \* the quadlets of *container on entry
    tlvCapacity,    \* *container_count on entry
    container,      \* the quadlets of *container after the call
    containerCount, \* *container_count after the call
    tlvCopied,      \* bytes the call copied into *container
    tlvIoctls,      \* the ioctls the call issued
    tlvPacket,      \* "none" | "freed": the transient packet of the call
    tlvErr,         \* GError **error: "none" or the errno it carries
    tlvPc,          \* "idle" | "done"
    \* ---- addition / replacement of user-defined elements -----------------
    addInfo,     \* struct snd_ctl_elem_info of the ALSACtlElemInfo passed last
    addLabels,   \* the "labels" property of that ALSACtlElemInfo
    addNames,    \* the memory names_ptr points to, as the ioctl saw it
    addOp,       \* "none" | "add" | "replace": the last call
    addCount,    \* elem_count of the last call
    addBase,     \* the identifier the kernel answered the ioctl with
    addEntries,  \* GList **entries handed back to the caller
    addIoctls,   \* the ioctls the call issued
    addPrep,     \* "skipped" | "ok" | errno: how prepare_enum_names ended
    addHeap,     \* what the call did to the heap, see AddHeap0
    addErr,      \* GError **error: "none" or the errno it carries
    addPc,       \* "idle" | "done"
    \* ---- the session object and its event sources -----------------------
    priv,        \* struct _ALSACtlCardPrivate: fd, devnode, subscribers
    files,       \* kernel: per descriptor "closed" | "open" | "subscribed"
    cardRefs,    \* the reference count of the ALSACtlCard, 0 = finalized
    owned,       \* the application still holds its reference to the card
    sources,     \* per CtlCardSource, where its creation / finalization is
    opens,       \* number of open(2) calls that were assigned to priv->fd
    srcOp,       \* the handler (or the step of a handler) that ran last
    srcSelf,     \* the source that handler worked on, 0 for none
    srcBefore,   \* priv->subscribers when that handler was entered
    srcIoctls,   \* the SUBSCRIBE_EVENTS ioctls that handler issued
    srcErr,      \* GError **error: "none" or the errno it carries
    privBefore,  \* *priv when that handler was entered
    srcSyscalls, \* the open(2) and close(2) calls that handler issued
    pathsLive,   \* device paths allocated for the card and not freed
    attached,    \* per CtlCardSource: it is attached to a GMainContext
    srcRet,      \* what that handler returned to GLib, "none" for nothing
    srcReads,    \* the read(2) calls that handler issued, see SrcRead
    srcPrep,     \* what the prepare function returned in that loop iteration
    srcCond,     \* what the descriptor reported in that loop iteration
    \* ---- alsactl_card_get_elem_info -------------------------------------
    infoId,      \* elem_id->numid of the call
    infoElem,    \* kernel: the element the call asked about
    infoQueries, \* the ELEM_INFO ioctls the call issued
    infoVariant, \* *elem_info: the object the call constructed, see NoVariant
    infoHeap,    \* what the call did to the heap, see InfoHeap0
    infoErr,     \* GError **error: "none" or the errno it carries
    infoPc,      \* "idle" | "done"
    \* ---- alsactl_get_card_sysname, alsactl_get_control_sysname (query.c) -
    nameOp,      \* "none" | "card" | "control"
    nameId,      \* card_id of the call, an unsigned int (see U32)
    nameLength,  \* "length" of allocate_sysname
    nameBuf,     \* the memory allocate_sysname allocated, as it left it
    nameHeap,    \* that memory: "none" | "live" | "freed"
    nameOut,     \* *sysname of the caller: "unset" | "name"
    nameErr,     \* GError **error: "none" or the errno it carries
    namePc       \* "idle" | "done"

listVars == <<kfirst, kcount, list, ids, idsAlloc, entries, listErr, listPc,
              listLog, listCount1, listRaced, oob>>

tlvVars == <<tlvBackend, tlvStore, tlvWritten, tlvOp, tlvId, tlvNull, tlvEntry,
             tlvCapacity, container, containerCount, tlvCopied, tlvIoctls,
             tlvPacket, tlvErr, tlvPc>>

addVars == <<addInfo, addLabels, addNames, addOp, addCount, addBase, addEntries,
             addIoctls, addPrep, addHeap, addErr, addPc>>

srcVars == <<priv, files, cardRefs, owned, sources, opens, srcOp, srcSelf,
             srcBefore, srcIoctls, srcErr, privBefore, srcSyscalls, pathsLive,
             attached, srcRet, srcReads, srcPrep, srcCond>>

infoVars == <<infoId, infoElem, infoQueries, infoVariant, infoHeap, infoErr, infoPc>>

nameVars == <<nameOp, nameId, nameLength, nameBuf, nameHeap, nameOut, nameErr, namePc>>

vars == <<listVars, tlvVars, addVars, srcVars, infoVars, nameVars>>

\* What a call of one kind leaves alone: the state of the other kinds.
listFrame == <<tlvVars, addVars, srcVars, infoVars, nameVars>>
tlvFrame == <<listVars, addVars, srcVars, infoVars, nameVars>>
addFrame == <<listVars, tlvVars, srcVars, infoVars, nameVars>>
srcFrame == <<listVars, tlvVars, addVars, infoVars, nameVars>>
infoFrame == <<listVars, tlvVars, addVars, srcVars, nameVars>>
nameFrame == <<listVars, tlvVars, addVars, srcVars, infoVars>>

(***************************************************************************)
(* Bounds of the model and constants of the program.                       *)
(***************************************************************************)
\* The largest element count of the kernel, in pages of ElemListPage entries.
MaxPages == 2

\* card.c:202: "list->space = MIN(list->count - list->offset, 1000)".
ElemListPage == 1000

\* The card ids of a name lookup have up to MaxDigits decimal digits; an
\* unsigned int has at most 10.
MaxDigits == 10

\* The largest container of a TLV call, in quadlets.
MaxQuads == 3

\* The largest elem_count of an addition or replacement.
MaxAddCount == 3

\* The number of event sources created on the card.
MaxSources == 3

\* The number of open(2) calls on the card.
MaxOpens == 2

\* The largest number of items of an enumerated element of the kernel.
MaxItems == 3

Min(a, b) == IF a < b THEN a ELSE b

\* errno values an ioctl(2) is rejected with by the kernel.
IoErrnos == {"ENODEV", "EPERM"}

\* A value read from memory the program does not own.
Garbage == -1

(***************************************************************************)
(* The kernel side of SNDRV_CTL_IOCTL_ELEM_LIST.                           *)
(***************************************************************************)
KCounts ==
    {0, 1, 2} \cup UNION {{p * ElemListPage - 1, p * ElemListPage, p * ElemListPage + 1} :
                          p \in 1..MaxPages}

KFirsts == {1, 2}

\* numid of the kernel's i-th element (i counts from 0).
KernelElemId(first, i) == first + i

\* list->used of the reply: the entries the kernel copies to list->pids.
KernelListUsed(cnt, offset, space) ==
    IF space > 0 /\ cnt > offset THEN Min(space, cnt - offset) ELSE 0

\* The array after the kernel copied `used` identifiers, taken from its
\* element list at `offset`, to pids = ids + pidsBase.  Entries past the end of
\* the allocation do not land in the array.
KernelCopyIds(arr, pidsBase, first, offset, used) ==
    [i \in 1..Len(arr) |->
        IF i - 1 >= pidsBase /\ i - 1 < pidsBase + used
        THEN KernelElemId(first, offset + (i - 1 - pidsBase))
        ELSE arr[i]]

(***************************************************************************)
(* allocate_elem_ids and alsactl_card_get_elem_id_list.                    *)
(***************************************************************************)
\* memset(list, 0, sizeof(*list)); pids = NULL.
ZeroList == [offset |-> 0, space |-> 0, used |-> 0, count |-> 0, pids |-> "NULL"]

\* calloc(list->count, sizeof(*ids)).
Calloc(n) == [i \in 1..n |-> 0]

\* ListSpace without the cap of one page.
ListSpace_uncapped(count, offset) == count - offset

\* card.c:202.
ListSpace(count, offset) == Min(count - offset, ElemListPage)

\* card.c:203: list->pids = ids + list->offset, as an index into ids.
ListPids(offset) == offset

\* A loop that advances by what the kernel returned.
ListAdvance_byUsed(offset, space, used) == offset + used

\* card.c:213: list->offset += list->space.
ListAdvance(offset, space, used) == offset + space

\* card.c:199: the condition of the loop of phase 2.
ListMore(l) == l.offset < l.count

\* ListEmpty without the early return.
ListEmpty_never(count) == FALSE

\* card.c:188: no elements found.
ListEmpty(count) == count = 0

\* One ELEM_LIST ioctl as the kernel saw it: the offset and space asked for,
\* the entries copied and "ok" or the errno it was rejected with.
ListIoctl(offset, space, used, res) ==
    [offset |-> offset, space |-> space, used |-> used, res |-> res]

\* card.c:249-253: one boxed copy per entry ids[0] .. ids[list.count - 1]; an
\* entry past the allocation is memory the program does not own.
CopyEntries(arr, count) ==
    [i \in 1..count |-> IF i <= Len(arr) THEN arr[i] ELSE Garbage]

\* The part of the call after phase 2: card.c:215-216, then the caller's loop
\* and deallocate_elem_ids (card.c:249-255).  free() of an array the kernel
\* overran works on a corrupted heap: it returns or it aborts the process.
ListFinish(l, arr, over) ==
    /\ list' = [l EXCEPT !.pids = "ids", !.space = l.count]
    /\ ids' = arr
    /\ oob' = over
    /\ listErr' = "none"
    /\ entries' = CopyEntries(arr, l.count)
    /\ idsAlloc' = "freed"
    /\ \/ listPc' = "done"
       \/ over /\ listPc' = "crashed"

\* alsactl_card_get_elem_id_list up to the end of phase 1 (card.c:245 and
\* card.c:179-196), and to its end when phase 1 ends the call.
alsactl_card_get_elem_id_list ==
    /\ UNCHANGED listFrame
    /\ listPc = "idle"
    /\ listRaced' = FALSE
    /\ UNCHANGED <<kfirst, kcount>>
    /\ \/ \E e \in IoErrnos :
            \* card.c:182-185: the phase-1 ioctl is rejected.
            /\ listLog' = <<ListIoctl(0, 0, 0, e)>>
            /\ list' = ZeroList
            /\ listCount1' = 0
            /\ listErr' = e
            /\ listPc' = "done"
            /\ UNCHANGED <<ids, idsAlloc, entries, oob>>
       \/ /\ listLog' = <<ListIoctl(0, 0, 0, "ok")>>
          /\ listCount1' = kcount
          /\ IF ListEmpty(kcount)
             THEN \* card.c:188-189, then card.c:249-255 with list.pids = NULL.
                  /\ list' = ZeroList
                  /\ listErr' = "none"
                  /\ listPc' = "done"
                  /\ entries' = <<>>
                  /\ UNCHANGED <<ids, idsAlloc, oob>>
             ELSE \/ \* card.c:192-196: calloc fails.
                     /\ list' = [ZeroList EXCEPT !.count = kcount]
                     /\ listErr' = "ENOMEM"
                     /\ listPc' = "done"
                     /\ UNCHANGED <<ids, idsAlloc, entries, oob>>
                  \/ \* card.c:198-199.
                     LET l == [ZeroList EXCEPT !.count = kcount]
                     IN  IF ListMore(l)
                         THEN /\ list' = l
                              /\ ids' = Calloc(kcount)
                              /\ idsAlloc' = "live"
                              /\ oob' = FALSE
                              /\ listErr' = "none"
                              /\ listPc' = "phase2"
                              /\ UNCHANGED entries
                         ELSE ListFinish(l, Calloc(kcount), FALSE)

\* allocate_elem_ids_failed without free(ids).
allocate_elem_ids_failed_leak(e, space) ==
    /\ list' = [list EXCEPT !.space = space, !.pids = "NULL"]
    /\ listErr' = e
    /\ listPc' = "done"
    /\ UNCHANGED <<ids, idsAlloc, entries, oob>>

\* card.c:206-211: the ioctl of phase 2 is rejected with errno e; the error is
\* generated, the array is passed to free() and list->pids is cleared.
allocate_elem_ids_failed(e, space) ==
    /\ list' = [list EXCEPT !.space = space, !.pids = "NULL"]
    /\ listErr' = e
    /\ idsAlloc' = "freed"
    /\ UNCHANGED <<ids, entries, oob>>
    /\ \/ listPc' = "done"
       \/ oob /\ listPc' = "crashed"

\* One turn of the loop of phase 2 (card.c:199-214), and the rest of the call
\* when it was the last turn.
allocate_elem_ids ==
    /\ UNCHANGED listFrame
    /\ listPc = "phase2"
    /\ UNCHANGED <<kfirst, kcount, listCount1, listRaced>>
    /\ LET space == ListSpace(list.count, list.offset)
           pids  == ListPids(list.offset)
       IN  \/ \E e \in IoErrnos :
                /\ listLog' = Append(listLog, ListIoctl(list.offset, space, 0, e))
                /\ allocate_elem_ids_failed(e, space)
           \/ LET used == KernelListUsed(kcount, list.offset, space)
                  arr  == KernelCopyIds(ids, pids, kfirst, list.offset, used)
                  over == oob \/ pids + used > Len(ids)
                  l    == [list EXCEPT !.space = space, !.pids = pids,
                                       !.used = used, !.count = kcount,
                                       !.offset = ListAdvance(list.offset, space, used)]
              IN  /\ listLog' = Append(listLog, ListIoctl(list.offset, space, used, "ok"))
                  /\ IF ListMore(l)
                     THEN /\ list' = l
                          /\ ids' = arr
                          /\ oob' = over
                          /\ UNCHANGED <<idsAlloc, entries, listErr, listPc>>
                     ELSE ListFinish(l, arr, over)

\* The caller takes the result; the session is ready for the next call.
ListReturn ==
    /\ UNCHANGED listFrame
    /\ listPc = "done"
    /\ listPc' = "idle"
    /\ list' = ZeroList
    /\ ids' = <<>>
    /\ idsAlloc' = "none"
    /\ entries' = <<>>
    /\ listErr' = "none"
    /\ listLog' = <<>>
    /\ listCount1' = 0
    /\ listRaced' = FALSE
    /\ oob' = FALSE
    /\ UNCHANGED <<kfirst, kcount>>

\* Another process adds or removes elements of the card: at the tail of the
\* kernel's list (kcount) or at its head (kfirst).  During a listing call this
\* happens at most once.
KernelChange ==
    /\ UNCHANGED listFrame
    /\ listPc \in {"idle", "phase2"}
    /\ listPc = "phase2" => ~listRaced
    /\ \E f \in KFirsts, n \in KCounts :
          /\ <<f, n>> # <<kfirst, kcount>>
          /\ kfirst' = f
          /\ kcount' = n
    /\ listRaced' = (listPc = "phase2")
    /\ UNCHANGED <<list, ids, idsAlloc, entries, listErr, listPc, listLog,
                   listCount1, oob>>

ListInit ==
    /\ kfirst \in KFirsts
    /\ kcount \in KCounts
    /\ list = ZeroList
    /\ ids = <<>>
    /\ idsAlloc = "none"
    /\ entries = <<>>
    /\ listErr = "none"
    /\ listPc = "idle"
    /\ listLog = <<>>
    /\ listCount1 = 0
    /\ listRaced = FALSE
    /\ oob = FALSE

ListNext ==
    \/ alsactl_card_get_elem_id_list
    \/ allocate_elem_ids
    \/ ListReturn
    \/ KernelChange

(***************************************************************************)
(* The TLV calls: alsactl_card_write_elem_tlv, alsactl_card_read_elem_tlv  *)
(* and alsactl_card_command_elem_tlv.                                      *)
(***************************************************************************)
\* The values of a quadlet (gint32) of a container.
Quadlets == {-1, 258}

\* The numids of the elements the calls name.
TlvNumids == {1, 2}

\* The containers of a caller: up to MaxQuads quadlets.
Containers == UNION {[1..n -> Quadlets] : n \in 0..MaxQuads}

\* The four bytes of a gint32 in memory (little-endian two's complement).
QuadToBytes(q) ==
    <<q % 256, (q \div 256) % 256, (q \div 65536) % 256, (q \div 16777216) % 256>>

\* The gint32 four bytes of memory hold.
BytesToQuad(b) ==
    b[1] + 256 * b[2] + 65536 * b[3]
         + 16777216 * (IF b[4] >= 128 THEN b[4] - 256 ELSE b[4])

\* The memory of an array of quadlets, and the quadlets of a memory.
Bytes(qs) ==
    [i \in 1..(4 * Len(qs)) |-> QuadToBytes(qs[((i - 1) \div 4) + 1])[((i - 1) % 4) + 1]]

Quads(bs) ==
    [i \in 1..(Len(bs) \div 4) |-> BytesToQuad(SubSeq(bs, 4 * i - 3, 4 * i))]

\* memcpy(dst, src, n) as far as it lands inside dst; a byte read past the
\* end of src is memory the program does not own.
Memcpy(dst, src, n) ==
    [i \in 1..Len(dst) |->
        IF i <= n THEN (IF i <= Len(src) THEN src[i] ELSE Garbage) ELSE dst[i]]

\* card.c:389, 433, 480 with the mutation "container_count < 1".
TlvTooShort_offByOne(null, count) == null \/ count < 1

\* card.c:389, 433, 480: at least two quadlets, for type and length.
TlvTooShort(null, count) == null \/ count < 2

\* card.c:393 with sizeof(*container) forgotten.
TlvContainerSize_noSizeof(count) == count

\* card.c:393, 437, 484: container_size.
TlvContainerSize(count) == count * 4

\* card.c:395, 401-402: the packet, g_malloc0'ed (which never returns NULL).
TlvPacketNew(numid, size) ==
    [numid |-> numid, length |-> size, tlv |-> [i \in 1..size |-> 0]]

\* card.c:452, 500: *container_count = packet->length / sizeof(**container).
TlvCount(length) == length \div 4

\* card.c:451, 499: memcpy(*container, packet->tlv, packet->length).
TlvCopyOut(buf, pkt) == Quads(Memcpy(Bytes(buf), pkt.tlv, pkt.length))

\* The calls the caller can make: an element, a container or NULL, and the
\* count it declares (that of the container when there is one).
TlvArgs ==
    {<<id, FALSE, buf, Len(buf)>> : id \in TlvNumids, buf \in Containers}
    \cup {<<id, TRUE, <<>>, n>> : id \in TlvNumids, n \in {0, 2}}

\* The data a kernel driver answers a read or a command of n bytes with.
KernelTlvData(n) == [i \in 1..n |-> IF i % 2 = 1 THEN 7 ELSE 0]

\* The kernel side of SNDRV_CTL_IOCTL_TLV_READ: the packet as the ioctl
\* leaves it and "ok" or the errno.  An echoing backend answers with what was
\* written to the element and leaves packet->length alone; any other backend
\* answers with data and a length of its own.
KernelTlvRead(pkt) ==
    IF tlvBackend = "echo"
    THEN IF tlvStore[pkt.numid] = <<>>
         THEN {[res |-> "ENXIO", pkt |-> pkt]}
         ELSE IF Len(tlvStore[pkt.numid]) > pkt.length
         THEN {[res |-> "ENOMEM", pkt |-> pkt]}
         ELSE {[res |-> "ok",
                pkt |-> [pkt EXCEPT !.tlv = Memcpy(pkt.tlv, tlvStore[pkt.numid],
                                                   Len(tlvStore[pkt.numid]))]]}
    ELSE {[res |-> e, pkt |-> pkt] : e \in IoErrnos}
         \cup {[res |-> "ok", pkt |-> [pkt EXCEPT !.tlv = d, !.length = n]] :
                d \in {pkt.tlv, KernelTlvData(Len(pkt.tlv))},
                n \in {0, 4, 7, Len(pkt.tlv), Len(pkt.tlv) + 4}}

\* The kernel side of SNDRV_CTL_IOCTL_TLV_COMMAND.
KernelTlvCommand(pkt) ==
    IF tlvBackend = "echo"
    THEN {[res |-> "ok", pkt |-> pkt]}
    ELSE KernelTlvRead(pkt)

\* The kernel side of SNDRV_CTL_IOCTL_TLV_WRITE: the store afterwards.
KernelTlvWrite(pkt) ==
    IF tlvBackend = "echo"
    THEN {[res |-> "ok",
           store |-> [tlvStore EXCEPT ![pkt.numid] = SubSeq(pkt.tlv, 1, pkt.length)]]}
    ELSE {[res |-> e, store |-> tlvStore] : e \in IoErrnos \cup {"ok"}}

\* card.c:389-392, 433-436, 480-483: the call ends before any allocation.
TlvInvalid(op, id, null, buf, count) ==
    /\ tlvOp' = op
    /\ tlvId' = id
    /\ tlvNull' = null
    /\ tlvEntry' = buf
    /\ tlvCapacity' = count
    /\ container' = buf
    /\ containerCount' = count
    /\ tlvCopied' = 0
    /\ tlvIoctls' = <<>>
    /\ tlvPacket' = "none"
    /\ tlvErr' = "EINVAL"
    /\ tlvPc' = "done"
    /\ UNCHANGED <<tlvBackend, tlvStore, tlvWritten>>

\* card.c:375-409.
alsactl_card_write_elem_tlv ==
    /\ UNCHANGED tlvFrame
    /\ tlvPc = "idle"
    /\ \E a \in TlvArgs :
        LET id == a[1]  null == a[2]  buf == a[3]  count == a[4] IN
        IF TlvTooShort(null, count)
        THEN TlvInvalid("write", id, null, buf, count)
        ELSE LET size == TlvContainerSize(count)
                 pkt  == [TlvPacketNew(id, size) EXCEPT
                             !.tlv = Memcpy(@, Bytes(buf), size)]
             IN  \E r \in KernelTlvWrite(pkt) :
                    /\ tlvOp' = "write"
                    /\ tlvId' = id
                    /\ tlvNull' = FALSE
                    /\ tlvEntry' = buf
                    /\ tlvCapacity' = count
                    /\ container' = buf
                    /\ containerCount' = count
                    /\ tlvCopied' = 0
                    /\ tlvIoctls' = <<[req |-> "TLV_WRITE", numid |-> pkt.numid,
                                       length |-> pkt.length]>>
                    /\ tlvPacket' = "freed"
                    /\ tlvErr' = IF r.res = "ok" THEN "none" ELSE r.res
                    /\ tlvStore' = r.store
                    /\ tlvWritten' = IF r.res = "ok" /\ tlvBackend = "echo"
                                     THEN [tlvWritten EXCEPT ![id] = buf]
                                     ELSE tlvWritten
                    /\ tlvPc' = "done"
                    /\ UNCHANGED tlvBackend

\* card.c:445-454 and 492-502: the ioctl of a read or a command and what
\* follows it, whether it was rejected or not.
TlvExchange(op, req, id, buf, count, pkt, r) ==
    /\ tlvOp' = op
    /\ tlvId' = id
    /\ tlvNull' = FALSE
    /\ tlvEntry' = buf
    /\ tlvCapacity' = count
    /\ container' = TlvCopyOut(buf, r.pkt)
    /\ containerCount' = TlvCount(r.pkt.length)
    /\ tlvCopied' = r.pkt.length
    /\ tlvIoctls' = <<[req |-> req, numid |-> pkt.numid, length |-> pkt.length]>>
    /\ tlvPacket' = "freed"
    /\ tlvErr' = IF r.res = "ok" THEN "none" ELSE r.res
    /\ tlvPc' = "done"
    /\ UNCHANGED <<tlvBackend, tlvStore, tlvWritten>>

\* card.c:420-455.
alsactl_card_read_elem_tlv ==
    /\ UNCHANGED tlvFrame
    /\ tlvPc = "idle"
    /\ \E a \in TlvArgs :
        LET id == a[1]  null == a[2]  buf == a[3]  count == a[4] IN
        IF TlvTooShort(null, count)
        THEN TlvInvalid("read", id, null, buf, count)
        ELSE LET pkt == TlvPacketNew(id, TlvContainerSize(count))
             IN  \E r \in KernelTlvRead(pkt) :
                    TlvExchange("read", "TLV_READ", id, buf, count, pkt, r)

\* card.c:466-503.
alsactl_card_command_elem_tlv ==
    /\ UNCHANGED tlvFrame
    /\ tlvPc = "idle"
    /\ \E a \in TlvArgs :
        LET id == a[1]  null == a[2]  buf == a[3]  count == a[4] IN
        IF TlvTooShort(null, count)
        THEN TlvInvalid("command", id, null, buf, count)
        ELSE LET size == TlvContainerSize(count)
                 pkt  == [TlvPacketNew(id, size) EXCEPT
                             !.tlv = Memcpy(@, Bytes(buf), size)]
             IN  \E r \in KernelTlvCommand(pkt) :
                    TlvExchange("command", "TLV_COMMAND", id, buf, count, pkt, r)

\* The caller takes the result; the session is ready for the next call.
TlvReturn ==
    /\ UNCHANGED tlvFrame
    /\ tlvPc = "done"
    /\ tlvPc' = "idle"
    /\ tlvOp' = "none"
    /\ tlvId' = 0
    /\ tlvNull' = FALSE
    /\ tlvEntry' = <<>>
    /\ tlvCapacity' = 0
    /\ container' = <<>>
    /\ containerCount' = 0
    /\ tlvCopied' = 0
    /\ tlvIoctls' = <<>>
    /\ tlvPacket' = "none"
    /\ tlvErr' = "none"
    /\ UNCHANGED <<tlvBackend, tlvStore, tlvWritten>>

TlvInit ==
    /\ tlvBackend \in {"echo", "any"}
    /\ tlvStore = [id \in TlvNumids |-> <<>>]
    /\ tlvWritten = [id \in TlvNumids |-> <<>>]
    /\ tlvOp = "none"
    /\ tlvId = 0
    /\ tlvNull = FALSE
    /\ tlvEntry = <<>>
    /\ tlvCapacity = 0
    /\ container = <<>>
    /\ containerCount = 0
    /\ tlvCopied = 0
    /\ tlvIoctls = <<>>
    /\ tlvPacket = "none"
    /\ tlvErr = "none"
    /\ tlvPc = "idle"

TlvNext ==
    \/ alsactl_card_write_elem_tlv
    \/ alsactl_card_read_elem_tlv
    \/ alsactl_card_command_elem_tlv
    \/ TlvReturn

(***************************************************************************)
(* prepare_enum_names, add_or_replace_elems, alsactl_card_add_elems and    *)
(* alsactl_card_replace_elems.                                             *)
(***************************************************************************)
\* An unsigned int is kept as two halves of 16 bits, its arithmetic modulo
\* 2^32.
U32(hi, lo) == [hi |-> hi, lo |-> lo]

U32Add(u, n) ==
    U32((u.hi + ((u.lo + n) \div 65536)) % 65536, (u.lo + n) % 65536)

\* card.c:520: length > 64 * 1024.
U32Over64K(u) == u.hi > 1 \/ (u.hi = 1 /\ u.lo > 0)

\* The value of an unsigned int that is at most 64 * 1024.
U32Value(u) == u.hi * 65536 + u.lo

\* card.c:508: "unsigned int length;" is read by "length +=" (card.c:517)
\* before anything is assigned to it: it starts at whatever the stack holds.
UninitialisedLength ==
    {U32(0, 0), U32(0, 1), U32(1, 0), U32(65535, 65532)}

\* A label is its characters; NUL ends a string in memory.
NUL == "NUL"

Label(ch, n) == [i \in 1..n |-> ch]

\* A NULL-terminated array of labels is kept as its runs of equal labels:
\* `times` labels `label` in a row.
Run(label, times) == [label |-> label, times |-> times]

\* The "labels" properties of the ALSACtlElemInfoEnum objects of a caller; the
\* last one takes 1025 * 64 bytes, more than 64 KiB.
LabelLists ==
    { <<>>,
      << Run(<<"O", "f", "f">>, 1), Run(<<"L", "o", "w">>, 1), Run(<<"H", "i", "g", "h">>, 1) >>,
      << Run(Label("x", 63), 1) >>,
      << Run(Label("x", 64), 1) >>,
      << Run(<<"a">>, 2), Run(Label("x", 64), 1), Run(<<"b">>, 1) >>,
      << Run(Label("y", 63), 1025) >> }

\* The number of labels of the array.
RECURSIVE LabelCount(_)
LabelCount(labels) ==
    IF labels = <<>> THEN 0 ELSE Head(labels).times + LabelCount(Tail(labels))

\* card.c:517: what "length += strlen(label) + 1" adds up over the labels.
RECURSIVE PrepSum(_)
PrepSum(labels) ==
    IF labels = <<>> THEN 0
    ELSE Head(labels).times * (Len(Head(labels).label) + 1) + PrepSum(Tail(labels))

\* card.c:511-518: the first loop over the labels: it returns EINVAL at the
\* first label of 64 bytes or more, and otherwise ends with the length.
PrepLength(labels, length) ==
    IF \E i \in 1..Len(labels) : Len(labels[i].label) >= 64
    THEN [err |-> "EINVAL", length |-> length]
    ELSE [err |-> "none", length |-> U32Add(length, PrepSum(labels))]

\* card.c:531-533: strcpy(pos, label) and the NUL after it, for the labels
\* of one run.
PrepRun(run) ==
    LET n == Len(run.label) + 1
    IN  [i \in 1..(run.times * n) |-> IF i % n = 0 THEN NUL ELSE run.label[i % n]]

\* card.c:529-534: the bytes the second loop writes from pos on.
RECURSIVE PrepBytes(_)
PrepBytes(labels) ==
    IF labels = <<>> THEN <<>>
    ELSE PrepRun(Head(labels)) \o PrepBytes(Tail(labels))

\* No memory for the names.
NoNames == [length |-> 0, bytes |-> <<>>]

\* card.c:505-538: prepare_enum_names on an info whose names_ptr is `ptr`,
\* with `garbage` what the stack holds for length.  g_malloc0(0) is NULL.
\* names is the allocation: its length and the bytes the second loop wrote
\* inside it (the bytes behind them are the zeroes of g_malloc0); over tells
\* that the loop wrote past its end.
prepare_enum_names(info, labels, garbage) ==
    LET first == PrepLength(labels, garbage) IN
    IF first.err # "none"
    THEN [err |-> "EINVAL", info |-> info, names |-> NoNames, alloc |-> FALSE, over |-> FALSE]
    ELSE IF U32Over64K(first.length)
    THEN [err |-> "EINVAL", info |-> info, names |-> NoNames, alloc |-> FALSE, over |-> FALSE]
    ELSE IF U32Value(first.length) = 0
    THEN [err |-> "ENOMEM", info |-> info, names |-> NoNames, alloc |-> FALSE, over |-> FALSE]
    ELSE LET length == U32Value(first.length)
             bytes  == PrepBytes(labels)
         IN  [err   |-> "none",
              info  |-> [info EXCEPT !.names_ptr = "live",
                                     !.names_length = length,
                                     !.items = LabelCount(labels)],
              names |-> [length |-> length,
                         bytes  |-> SubSeq(bytes, 1, Min(Len(bytes), length))],
              alloc |-> TRUE,
              over  |-> Len(bytes) > length]

\* The types of an element (SNDRV_CTL_ELEM_TYPE_*).
ElemTypes == {"BOOLEAN", "INTEGER", "ENUMERATED", "BYTES", "IEC958", "INTEGER64"}

ElemId(numid, index) == [numid |-> numid, index |-> index]

\* The private struct of an ALSACtlElemInfo g_object_new() returns: zeroed.
NewInfo(type) ==
    [type |-> type, id |-> ElemId(0, 0), owner |-> 0, items |-> 0,
     names_ptr |-> "NULL", names_length |-> 0]

\* The identifiers a caller asks an addition for: numid 0 and an index.
AddElemIds == {ElemId(0, 0), ElemId(0, 4)}

\* The kernel side of SNDRV_CTL_IOCTL_ELEM_ADD and ELEM_REPLACE: an errno, or
\* the identifier of the first element it added, written to info->id.
KernelElemAdd(info) ==
    {[res |-> e, id |-> info.id] : e \in IoErrnos}
    \cup {[res |-> "ok", id |-> ElemId(n, info.id.index)] : n \in {10, 20}}

\* What a call did to the heap: buffers it allocated, buffers of its own it
\* freed, frees of memory that was not allocated (any more), and whether it
\* wrote past the end of a buffer; stale tells that names_ptr of the info
\* it was called with pointed to memory an earlier call had freed.
AddHeap0 == [allocs |-> 0, frees |-> 0, badFrees |-> 0, over |-> FALSE, stale |-> FALSE]

\* A call that leaves the names to the caller.
AddFree_leak(heap, ptr) == heap

\* card.c:574: g_free((void *)info->value.enumerated.names_ptr).
AddFree(heap, ptr) ==
    CASE ptr = "NULL" -> heap
      [] ptr = "live" -> [heap EXCEPT !.frees = @ + 1]
      [] OTHER        -> [heap EXCEPT !.badFrees = @ + 1]

\* names_ptr after g_free(): the pointer stays, the memory is gone.
AddFreed(ptr) == IF ptr = "NULL" THEN "NULL" ELSE "dangling"

\* card.c:582-583 without "++info->id.index".
AddNextId_numidOnly(id) == ElemId(id.numid + 1, id.index)

\* card.c:582-583: ++info->id.numid; ++info->id.index.
AddNextId(id) == ElemId(id.numid + 1, id.index + 1)

\* card.c:578-584: the entries, and info->id as the loop leaves it.
RECURSIVE AddLoop(_, _, _)
AddLoop(id, i, count) ==
    IF i >= count THEN [entries |-> <<>>, id |-> id]
    ELSE LET rest == AddLoop(AddNextId(id), i + 1, count)
         IN  [entries |-> <<id>> \o rest.entries, id |-> rest.id]

\* card.c:566-569.
AddRequest(replace) == IF replace THEN "ELEM_REPLACE" ELSE "ELEM_ADD"

\* A call that goes on to the ioctl whatever prepare_enum_names returned.
AddPrepFailed_ignored(err) == FALSE

\* card.c:560: "if (err < 0)", the call returns with the error.
AddPrepFailed(err) == err # "none"

\* card.c:540-585: add_or_replace_elems on the ALSACtlElemInfo `obj`, whose
\* labels are `labels`.
add_or_replace_elems(elem_id, elem_count, obj, labels, replace) ==
    LET info0 == [obj EXCEPT !.id = elem_id] IN
    \E garbage \in (IF info0.type = "ENUMERATED" THEN UninitialisedLength
                    ELSE {U32(0, 0)}) :
    LET prep  == IF info0.type = "ENUMERATED"
                 THEN prepare_enum_names(info0, labels, garbage)
                 ELSE [err |-> "none", info |-> info0, names |-> NoNames,
                       alloc |-> FALSE, over |-> FALSE]
        heap1 == [AddHeap0 EXCEPT !.allocs = IF prep.alloc THEN 1 ELSE 0,
                                  !.over = prep.over,
                                  !.stale = obj.names_ptr = "dangling"]
        info1 == [prep.info EXCEPT !.owner = elem_count]
    IN
    /\ addOp' = IF replace THEN "replace" ELSE "add"
    /\ addCount' = elem_count
    /\ addLabels' = labels
    /\ addPrep' = IF info0.type = "ENUMERATED"
                  THEN (IF prep.err = "none" THEN "ok" ELSE prep.err)
                  ELSE "skipped"
    /\ addPc' = "done"
    /\ IF AddPrepFailed(prep.err)
       THEN \* card.c:560-563.
            /\ addInfo' = info0
            /\ addNames' = NoNames
            /\ addBase' = ElemId(0, 0)
            /\ addEntries' = <<>>
            /\ addIoctls' = <<>>
            /\ addHeap' = heap1
            /\ addErr' = prep.err
       ELSE \E r \in KernelElemAdd(info1) :
            LET info2 == [info1 EXCEPT !.id = r.id]
                heap2 == AddFree(heap1, info2.names_ptr)
                info3 == [info2 EXCEPT !.names_ptr = AddFreed(@)]
                loop  == AddLoop(info3.id, 0, elem_count)
            IN
            /\ addNames' = prep.names
            /\ addIoctls' = <<[req |-> AddRequest(replace), info |-> info1]>>
            /\ addHeap' = heap2
            /\ addBase' = r.id
            /\ IF r.res # "ok"
               THEN \* card.c:572-576.
                    /\ addErr' = r.res
                    /\ addEntries' = <<>>
                    /\ addInfo' = info3
               ELSE \* card.c:578-584.
                    /\ addErr' = "none"
                    /\ addEntries' = loop.entries
                    /\ addInfo' = [info3 EXCEPT !.id = loop.id]

\* The ALSACtlElemInfo objects a caller passes: a new one, enumerated or not
\* (card.c:553 asks for nothing else), or the one it passed to the call before.
AddObjects ==
    {<<NewInfo(t), <<>>>> : t \in {"BOOLEAN", "INTEGER64"}}
    \cup {<<NewInfo("ENUMERATED"), l>> : l \in LabelLists}
    \cup {<<addInfo, addLabels>>}

\* card.c:598-611.
alsactl_card_add_elems ==
    /\ UNCHANGED addFrame
    /\ addPc = "idle"
    /\ \E elem_id \in AddElemIds, elem_count \in 0..MaxAddCount, o \in AddObjects :
          add_or_replace_elems(elem_id, elem_count, o[1], o[2], FALSE)

\* card.c:624-637.
alsactl_card_replace_elems ==
    /\ UNCHANGED addFrame
    /\ addPc = "idle"
    /\ \E elem_id \in AddElemIds, elem_count \in 0..MaxAddCount, o \in AddObjects :
          add_or_replace_elems(elem_id, elem_count, o[1], o[2], TRUE)

\* The caller takes the result and keeps the ALSACtlElemInfo it passed.
AddReturn ==
    /\ UNCHANGED addFrame
    /\ addPc = "done"
    /\ addPc' = "idle"
    /\ addNames' = NoNames
    /\ addOp' = "none"
    /\ addCount' = 0
    /\ addBase' = ElemId(0, 0)
    /\ addEntries' = <<>>
    /\ addIoctls' = <<>>
    /\ addPrep' = "skipped"
    /\ addHeap' = AddHeap0
    /\ addErr' = "none"
    /\ UNCHANGED <<addInfo, addLabels>>

AddInit ==
    /\ addInfo = NewInfo("BOOLEAN")
    /\ addLabels = <<>>
    /\ addNames = NoNames
    /\ addOp = "none"
    /\ addCount = 0
    /\ addBase = ElemId(0, 0)
    /\ addEntries = <<>>
    /\ addIoctls = <<>>
    /\ addPrep = "skipped"
    /\ addHeap = AddHeap0
    /\ addErr = "none"
    /\ addPc = "idle"

AddNext ==
    \/ alsactl_card_add_elems
    \/ alsactl_card_replace_elems
    \/ AddReturn

(***************************************************************************)
(* The session object (alsactl_card_init, alsactl_card_open,               *)
(* ctl_card_finalize) and its event sources (alsactl_card_create_source,   *)
(* ctl_card_finalize_src).                                                 *)
(***************************************************************************)
SrcIds == 1..MaxSources

\* The descriptors open(2) hands out to the process.
Fds == 3..(2 + MaxOpens)

\* card.c:105: "priv->fd = -1".
NoFd == 0 - 1

\* The prepare function was not called.
NoPrepare == [called |-> FALSE, ready |-> FALSE, timeout |-> 0]

\* The state the handlers of a source work on, with the ioctls they issued
\* (io) and the error they generated (err).
SrcWorld ==
    [priv |-> priv, files |-> files, refs |-> cardRefs, src |-> sources,
     io |-> <<>>, err |-> "none", sys |-> <<>>, paths |-> pathsLive,
     att |-> attached, ret |-> "none", reads |-> <<>>,
     prep |-> NoPrepare, cond |-> {}]

\* One SNDRV_CTL_IOCTL_SUBSCRIBE_EVENTS ioctl as it was issued and answered.
SrcIoctl(fd, subscribe, res) == [fd |-> fd, subscribe |-> subscribe, res |-> res]

\* The answers of the kernel to an ioctl on fd.
KernelReplies(fs, fd) ==
    IF fd \in Fds /\ fs[fd] # "closed" THEN {"ok"} \cup IoErrnos ELSE {"EBADF"}

\* sound/core/control.c, snd_ctl_subscribe_events: the file is subscribed
\* for 1 and unsubscribed for 0; a rejected ioctl changes nothing.
KernelSubscribe(fs, fd, subscribe, res) ==
    IF res = "ok"
    THEN [fs EXCEPT ![fd] = IF subscribe = 1 THEN "subscribed" ELSE "open"]
    ELSE fs

\* A creation that does not count the source.
SrcCount_notCounted(w, s) ==
    [w EXCEPT !.refs = @ + 1, !.src[s] = "counted"]

\* card.c:776-785: the source takes a reference to the card and is counted.
SrcCount(w, s) ==
    [w EXCEPT !.refs = @ + 1,
              !.priv.subscribers = @ + 1,
              !.src[s] = "counted"]

\* card.c:787-790: the subscribe ioctl; when it is rejected the error is
\* generated and g_source_unref() is to finalize the source.
SrcSubscribe(w, s, res) ==
    [w EXCEPT !.files = KernelSubscribe(@, w.priv.fd, 1, res),
              !.io = Append(@, SrcIoctl(w.priv.fd, 1, res)),
              !.err = IF res = "ok" THEN @ ELSE res,
              !.src[s] = IF res = "ok" THEN "live" ELSE "unref"]

\* A finalization that takes every source for the last one.
SrcDecAndTest_alwaysLast(w, s) ==
    [w EXCEPT !.priv.subscribers = @ - 1, !.src[s] = "last"]

\* card.c:723: g_atomic_int_dec_and_test(&priv->subscribers).
SrcDecAndTest(w, s) ==
    [w EXCEPT !.priv.subscribers = @ - 1,
              !.src[s] = IF w.priv.subscribers - 1 = 0 THEN "last" ELSE "release"]

\* card.c:724-725: the unsubscribe ioctl, its result is not looked at.
SrcUnsubscribe(w, s, res) ==
    [w EXCEPT !.files = KernelSubscribe(@, w.priv.fd, 0, res),
              !.io = Append(@, SrcIoctl(w.priv.fd, 0, res)),
              !.src[s] = "release"]

\* card.c:64-75: the descriptor is closed and the path freed when there is a
\* descriptor.
ctl_card_finalize(w) ==
    IF w.priv.fd >= 0
    THEN [w EXCEPT !.files[w.priv.fd] = "closed",
                   !.sys = Append(@, [call |-> "close", res |-> w.priv.fd]),
                   !.priv.devnode = "freed",
                   !.paths = @ - 1]
    ELSE w

\* g_object_unref(): the last reference finalizes the card.
g_object_unref(w) ==
    IF w.refs = 1
    THEN [ctl_card_finalize(w) EXCEPT !.refs = 0]
    ELSE [w EXCEPT !.refs = @ - 1]

\* card.c:728-729: the buffer is freed and the reference to the card dropped.
SrcRelease(w, s) ==
    [g_object_unref(w) EXCEPT !.src[s] = "finalized", !.att[s] = FALSE]

\* The answers to the unsubscribe ioctl of a finalization entered in w: it
\* is issued on priv->fd; "none" when it is not issued.
UnsubscribeReplies(w) ==
    IF w.priv.subscribers = 1 THEN KernelReplies(w.files, w.priv.fd) ELSE {"none"}

\* card.c:717-730, the whole of ctl_card_finalize_src.
FinalizeSrc(w, s, res) ==
    LET w1 == SrcDecAndTest(w, s)
        w2 == IF w1.src[s] = "last" THEN SrcUnsubscribe(w1, s, res) ELSE w1
    IN  SrcRelease(w2, s)

\* A creation that does not look at the descriptor.
NotOpened_never(w) == FALSE

\* card.c:758: "if (priv->fd < 0)".
NotOpened(w) == w.priv.fd < 0

\* A creation that leaves the source as it is when the subscription failed.
CreateSource_noTeardown(w, s, buf, res, res2) ==
    IF NotOpened(w) THEN [w EXCEPT !.err = "ENXIO"]
    ELSE IF buf = "NULL" THEN [w EXCEPT !.err = "ENOMEM"]
    ELSE SrcSubscribe(SrcCount(w, s), s, res)

\* card.c:741-792, the whole of alsactl_card_create_source; buf is what
\* g_try_malloc0() returned.
CreateSource(w, s, buf, res, res2) ==
    IF NotOpened(w) THEN [w EXCEPT !.err = "ENXIO"]
    ELSE IF buf = "NULL" THEN [w EXCEPT !.err = "ENOMEM"]
    ELSE LET w1 == SrcSubscribe(SrcCount(w, s), s, res)
         IN  IF res = "ok" THEN w1 ELSE FinalizeSrc(w1, s, res2)

\* The next source g_source_new() allocates.
SrcFresh(s) ==
    /\ sources[s] = "none"
    /\ \A t \in SrcIds : t < s => sources[t] # "none"

\* The state a handler leaves.
SrcCommit(w, op, s) ==
    /\ priv' = w.priv
    /\ files' = w.files
    /\ cardRefs' = w.refs
    /\ sources' = w.src
    /\ srcIoctls' = w.io
    /\ srcErr' = w.err
    /\ srcOp' = op
    /\ srcSelf' = s
    /\ srcBefore' = priv.subscribers
    /\ privBefore' = priv
    /\ srcSyscalls' = w.sys
    /\ pathsLive' = w.paths
    /\ attached' = w.att
    /\ srcRet' = w.ret
    /\ srcReads' = w.reads
    /\ srcPrep' = w.prep
    /\ srcCond' = w.cond
    /\ UNCHANGED srcFrame

\* card.c:133-135: the path was not found, the call returns.
OpenLookupFailed(w, e) == [w EXCEPT !.err = e]

\* An open that stores the path although open(2) failed.
OpenSyscallFailed_keepsPath(w, e) ==
    [w EXCEPT !.priv.fd = NoFd,
              !.priv.devnode = "path",
              !.paths = @ + 1,
              !.sys = Append(@, [call |-> "open", res |-> e]),
              !.err = e]

\* card.c:137-142: open(2) failed; its result was assigned to priv->fd, the
\* path is freed and not stored.
OpenSyscallFailed(w, e) ==
    [w EXCEPT !.priv.fd = NoFd,
              !.sys = Append(@, [call |-> "open", res |-> e]),
              !.err = e]

\* card.c:137, 144: open(2) returned fd; the descriptor and the path are
\* stored over what priv held.
OpenSucceeded(w, fd) ==
    [w EXCEPT !.priv.fd = fd,
              !.priv.devnode = "path",
              !.files[fd] = "open",
              !.paths = @ + 1,
              !.sys = Append(@, [call |-> "open", res |-> fd])]

\* The descriptor open(2) returns: the lowest one that is not open.
LowestFd(fs) ==
    CHOOSE f \in Fds : fs[f] = "closed" /\ \A g \in Fds : g < f => fs[g] # "closed"

\* card.c:125-145.  The path lookup may fail (no change); open(2) may fail,
\* and its result is assigned to priv->fd either way.
alsactl_card_open ==
    /\ owned
    /\ opens < MaxOpens
    /\ \E devnode \in {"found", "ENODEV"} :
       \E res \in {"ok"} \cup IoErrnos :
          IF devnode # "found"
          THEN /\ SrcCommit(OpenLookupFailed(SrcWorld, devnode), "alsactl_card_open", 0)
               /\ UNCHANGED <<owned, opens>>
          ELSE /\ res = "ok" =>
                    SrcCommit(OpenSucceeded(SrcWorld, LowestFd(files)),
                              "alsactl_card_open", 0)
               /\ res # "ok" =>
                    SrcCommit(OpenSyscallFailed(SrcWorld, res), "alsactl_card_open", 0)
               /\ opens' = opens + 1
               /\ UNCHANGED owned

\* card.c:741-792, called by a holder of the card.
alsactl_card_create_source ==
    /\ owned
    /\ \E s \in SrcIds, buf \in {"NULL", "page"} :
          /\ SrcFresh(s)
          /\ \E res \in KernelReplies(files, priv.fd) :
             \E res2 \in (IF res = "ok" THEN {"none"}
                          ELSE UnsubscribeReplies(SrcCount(SrcWorld, s))) :
                SrcCommit(CreateSource(SrcWorld, s, buf, res, res2),
                          "alsactl_card_create_source", s)
    /\ UNCHANGED <<owned, opens>>

\* card.c:717-730, run by g_source_unref() of the last holder of a source.
ctl_card_finalize_src ==
    /\ \E s \in SrcIds :
          /\ sources[s] = "live"
          /\ \E res \in UnsubscribeReplies(SrcWorld) :
                SrcCommit(FinalizeSrc(SrcWorld, s, res), "ctl_card_finalize_src", s)
    /\ UNCHANGED <<owned, opens>>

\* The application drops its reference to the card.
CardUnref ==
    /\ owned
    /\ owned' = FALSE
    /\ SrcCommit(g_object_unref(SrcWorld), "g_object_unref", 0)
    /\ UNCHANGED opens

\* The same handlers, one shared-memory access or ioctl at a time, as threads
\* that create and finalize sources of one card run them.
\* card.c:755-785, up to g_atomic_int_inc().
create_source_inc ==
    /\ owned
    /\ \E s \in SrcIds, buf \in {"NULL", "page"} :
          /\ SrcFresh(s)
          /\ SrcCommit(IF NotOpened(SrcWorld) THEN [SrcWorld EXCEPT !.err = "ENXIO"]
                       ELSE IF buf = "NULL" THEN [SrcWorld EXCEPT !.err = "ENOMEM"]
                       ELSE SrcCount(SrcWorld, s),
                       "create_source_inc", s)
    /\ UNCHANGED <<owned, opens>>

\* card.c:787-790.
create_source_subscribe ==
    /\ \E s \in SrcIds :
          /\ sources[s] = "counted"
          /\ \E res \in KernelReplies(files, priv.fd) :
                SrcCommit(SrcSubscribe(SrcWorld, s, res), "create_source_subscribe", s)
    /\ UNCHANGED <<owned, opens>>

\* card.c:723.
finalize_src_dec_and_test ==
    /\ \E s \in SrcIds :
          /\ sources[s] \in {"live", "unref"}
          /\ SrcCommit(SrcDecAndTest(SrcWorld, s), "finalize_src_dec_and_test", s)
    /\ UNCHANGED <<owned, opens>>

\* card.c:724-725.
finalize_src_unsubscribe ==
    /\ \E s \in SrcIds :
          /\ sources[s] = "last"
          /\ \E res \in KernelReplies(files, priv.fd) :
                SrcCommit(SrcUnsubscribe(SrcWorld, s, res), "finalize_src_unsubscribe", s)
    /\ UNCHANGED <<owned, opens>>

\* card.c:728-729.
finalize_src_release ==
    /\ \E s \in SrcIds :
          /\ sources[s] = "release"
          /\ SrcCommit(SrcRelease(SrcWorld, s), "finalize_src_release", s)
    /\ UNCHANGED <<owned, opens>>

\* card.c:706: sizeof(struct snd_ctl_event), in bytes.
RecordSize == 72

\* card.c:752: sysconf(_SC_PAGESIZE), the length of the buffer of a source.
PageSize == 4096

\* What read(2) on the descriptor answers: the number of bytes, or -1 and
\* an errno.
ReadErrnos == {"EAGAIN", "ENODEV"}
ReadLengths == {0, RecordSize - 1, RecordSize, 2 * RecordSize + 28, PageSize}
ReadResults ==
    {[len |-> 0 - 1, errno |-> e] : e \in ReadErrnos}
    \cup {[len |-> n, errno |-> "none"] : n \in ReadLengths}

\* One read(2) as it was issued and answered; records is the byte offsets in
\* the buffer of the records the loop at card.c:706-711 went over, in the
\* order it went over them.
SrcRead(fd, rd, records) ==
    [fd |-> fd, len |-> rd.len, errno |-> rd.errno, records |-> records]

\* card.c:668-677: the source is dispatched for G_IO_IN or G_IO_ERR.
ctl_card_check_src(condition) == condition \cap {"IN", "ERR"} # {}

\* What g_source_query_unix_fd() reports for the descriptor of a source.
Conditions == SUBSET {"IN", "ERR", "HUP"}

\* A prepare function that takes the source for ready.
ctl_card_prepare_src_ready == [called |-> TRUE, ready |-> TRUE, timeout |-> 500]

\* card.c:660-666: *timeout = 500, return FALSE.
ctl_card_prepare_src == [called |-> TRUE, ready |-> FALSE, timeout |-> 500]

\* GLib, g_main_context_prepare() and g_main_context_check(): a source is
\* dispatched in an iteration when its prepare function returned TRUE or,
\* after the poll, its check function did.
SourceReady(prep, condition) == prep.ready \/ ctl_card_check_src(condition)

\* One iteration of the loop for the source s up to the dispatch.
LoopIteration(w, condition) ==
    [w EXCEPT !.prep = ctl_card_prepare_src, !.cond = condition]

\* A loop that takes what is left of a record for a record.
RecordFits_partial(len) == len > 0

\* card.c:706: "while (len >= sizeof(*ev))".
RecordFits(len) == len >= RecordSize

\* card.c:705-711: the records the loop goes over when len bytes are left
\* and ev is at the byte offset ev of the buffer; "len -= sizeof(*ev); ++ev".
RECURSIVE DispatchRecords(_, _)
DispatchRecords(len, ev) ==
    IF RecordFits(len)
    THEN <<ev>> \o DispatchRecords(len - RecordSize, ev + RecordSize)
    ELSE <<>>

\* A dispatch that does not look at the descriptor of the card.
DispatchNotOpened_never(p) == FALSE

\* card.c:690: "if (priv->fd < 0)".
DispatchNotOpened(p) == p.fd < 0

\* A dispatch that does not look at the error condition.
ConditionError_never(condition) == FALSE

\* card.c:694: "if (condition & G_IO_ERR)".
ConditionError(condition) == "ERR" \in condition

\* A dispatch that takes every failed read for final.
ReadWouldBlock_never(e) == FALSE

\* card.c:699: "if (errno == EAGAIN)".
ReadWouldBlock(e) == e = "EAGAIN"

\* card.c:679-715 for the source s; rd is what read(2) answers.  A source
\* that returns G_SOURCE_REMOVE is destroyed by GLib: it is detached from
\* its GMainContext.
DispatchSrc(w, s, condition, rd) ==
    IF DispatchNotOpened(w.priv) \/ ConditionError(condition)
    THEN [w EXCEPT !.ret = "G_SOURCE_REMOVE", !.att[s] = FALSE]
    ELSE IF rd.len < 0
    THEN IF ReadWouldBlock(rd.errno)
         THEN [w EXCEPT !.reads = Append(@, SrcRead(w.priv.fd, rd, <<>>)),
                        !.ret = "G_SOURCE_CONTINUE"]
         ELSE [w EXCEPT !.reads = Append(@, SrcRead(w.priv.fd, rd, <<>>)),
                        !.ret = "G_SOURCE_REMOVE",
                        !.att[s] = FALSE]
    ELSE [w EXCEPT !.reads = Append(@, SrcRead(w.priv.fd, rd, DispatchRecords(rd.len, 0))),
                   !.ret = "G_SOURCE_CONTINUE"]

\* g_source_attach() by the holder of a source.
SourceAttach ==
    /\ \E s \in SrcIds :
          /\ sources[s] = "live"
          /\ ~attached[s]
          /\ SrcCommit([SrcWorld EXCEPT !.att[s] = TRUE], "g_source_attach", s)
    /\ UNCHANGED <<owned, opens>>

\* card.c:679-715, called by GLib for an attached source in a loop iteration
\* in which the source is ready.
ctl_card_dispatch_src ==
    /\ \E s \in SrcIds, condition \in Conditions, rd \in ReadResults :
          /\ sources[s] = "live"
          /\ attached[s]
          /\ SourceReady(ctl_card_prepare_src, condition)
          /\ SrcCommit(DispatchSrc(LoopIteration(SrcWorld, condition), s, condition, rd),
                       "ctl_card_dispatch_src", s)
    /\ UNCHANGED <<owned, opens>>

\* card.c:660-677: a loop iteration in which an attached source is not
\* ready; it is not dispatched.
SourceNotReady ==
    /\ \E s \in SrcIds, condition \in Conditions :
          /\ sources[s] = "live"
          /\ attached[s]
          /\ ~SourceReady(ctl_card_prepare_src, condition)
          /\ SrcCommit(LoopIteration(SrcWorld, condition), "ctl_card_check_src", s)
    /\ UNCHANGED <<owned, opens>>

\* card.c:52-57: the value of the property "subscribed".
PropSubscribed(p) == IF p.subscribers > 0 THEN "TRUE" ELSE "FALSE"

\* card.c:42-62 for CTL_CARD_PROP_SUBSCRIBED, called by a holder of the card.
ctl_card_get_property ==
    /\ owned
    /\ SrcCommit([SrcWorld EXCEPT !.ret = PropSubscribed(priv)],
                 "ctl_card_get_property", 0)
    /\ UNCHANGED <<owned, opens>>

\* card.c:101-106 and alsactl_card_new(): a card nobody opened yet.
SrcInit ==
    /\ priv = [fd |-> NoFd, devnode |-> "NULL", subscribers |-> 0]
    /\ files = [f \in Fds |-> "closed"]
    /\ cardRefs = 1
    /\ owned = TRUE
    /\ sources = [s \in SrcIds |-> "none"]
    /\ opens = 0
    /\ srcOp = "none"
    /\ srcSelf = 0
    /\ srcBefore = 0
    /\ srcIoctls = <<>>
    /\ srcErr = "none"
    /\ privBefore = [fd |-> NoFd, devnode |-> "NULL", subscribers |-> 0]
    /\ srcSyscalls = <<>>
    /\ pathsLive = 0
    /\ attached = [s \in SrcIds |-> FALSE]
    /\ srcRet = "none"
    /\ srcReads = <<>>
    /\ srcPrep = NoPrepare
    /\ srcCond = {}

\* The handlers, each run from its entry to its return.
SrcNext ==
    \/ alsactl_card_open
    \/ alsactl_card_create_source
    \/ ctl_card_finalize_src
    \/ CardUnref

\* The handlers of the card and of the sources of a GMainContext.
DispNext ==
    \/ alsactl_card_open
    \/ alsactl_card_create_source
    \/ SourceAttach
    \/ SourceNotReady
    \/ ctl_card_dispatch_src
    \/ ctl_card_finalize_src
    \/ CardUnref

\* The handlers of the sources interleaved.
RaceNext ==
    \/ alsactl_card_open
    \/ create_source_inc
    \/ create_source_subscribe
    \/ finalize_src_dec_and_test
    \/ finalize_src_unsubscribe
    \/ finalize_src_release
    \/ ctl_card_get_property
    \/ CardUnref

(***************************************************************************)
(* alsactl_card_get_elem_info.                                             *)
(***************************************************************************)
\* The type codes the kernel reports (SNDRV_CTL_ELEM_TYPE_*): NONE = 0,
\* the six types of control elements, and a code above them.
KernelTypes ==
    {"NONE", "BOOLEAN", "INTEGER", "ENUMERATED", "BYTES", "IEC958",
     "INTEGER64", "UNKNOWN7"}

\* The names of the items of the enumerated elements of the kernel: an
\* element has the names from index `base` on.
ItemName(i) ==
    CASE i = 0 -> "Off"
      [] i = 1 -> "Low"
      [] i = 2 -> "High"
      [] i = 3 -> "Auto"
      [] OTHER -> "Max"

\* The elements of the kernel a caller asks about.
KernelElems ==
    {[type |-> t, items |-> 0, base |-> 0] : t \in KernelTypes \ {"ENUMERATED"}}
    \cup {[type |-> "ENUMERATED", items |-> n, base |-> b] :
              n \in 0..MaxItems, b \in {0, 1}}

\* card.c:298, 303: "info = {0}", then "info.id = *elem_id".
InfoRequest(numid) ==
    [numid |-> numid, type |-> "NONE", items |-> 0, item |-> 0, name |-> ""]

\* The kernel side of SNDRV_CTL_IOCTL_ELEM_INFO: the struct as it is filled
\* in for the element; for an enumerated element with the name of info.item.
KernelElemInfo(elem, info) ==
    [info EXCEPT !.type = elem.type,
                 !.items = elem.items,
                 !.name = IF elem.type = "ENUMERATED" /\ elem.items > 0
                          THEN ItemName(elem.base + Min(info.item, elem.items - 1))
                          ELSE ""]

\* A construction that takes an INTEGER64 element for an INTEGER one.
InfoClass_int64AsInt(type) ==
    CASE type = "BOOLEAN"    -> "ALSACTL_TYPE_ELEM_INFO_BOOL"
      [] type = "INTEGER"    -> "ALSACTL_TYPE_ELEM_INFO_INT"
      [] type = "BYTES"      -> "ALSACTL_TYPE_ELEM_INFO_BYTES"
      [] type = "IEC958"     -> "ALSACTL_TYPE_ELEM_INFO_IEC60958"
      [] type = "INTEGER64"  -> "ALSACTL_TYPE_ELEM_INFO_INT"
      [] type = "ENUMERATED" -> "ALSACTL_TYPE_ELEM_INFO_ENUM"
      [] OTHER               -> "none"

\* card.c:309-329, 356: the class of the object for a type code, "none" for
\* the default branch of the switch.
InfoClass(type) ==
    CASE type = "BOOLEAN"    -> "ALSACTL_TYPE_ELEM_INFO_BOOL"
      [] type = "INTEGER"    -> "ALSACTL_TYPE_ELEM_INFO_INT"
      [] type = "BYTES"      -> "ALSACTL_TYPE_ELEM_INFO_BYTES"
      [] type = "IEC958"     -> "ALSACTL_TYPE_ELEM_INFO_IEC60958"
      [] type = "INTEGER64"  -> "ALSACTL_TYPE_ELEM_INFO_INT64"
      [] type = "ENUMERATED" -> "ALSACTL_TYPE_ELEM_INFO_ENUM"
      [] OTHER               -> "none"

\* No object: *elem_info as the caller passed it.
NoVariant == [class |-> "none", labels |-> <<>>, info |-> InfoRequest(0)]

\* What the call did to the heap: labels it strdup'ed, labels it freed, and
\* the arrays of labels it allocated and freed.
InfoHeap0 == [strdups |-> 0, freed |-> 0, arrays |-> 0, arraysFreed |-> 0]

\* g_strfreev(labels): every label up to the first NULL, and the array.
InfoStrfreev(heap, labels) ==
    [heap EXCEPT !.freed = @ + Len(labels), !.arraysFreed = @ + 1]

\* How a query of the loop at card.c:340-354 ends: the ioctl is answered and
\* the name duplicated, the ioctl is rejected, or strdup() returns NULL.
InfoOutcomes == {"ok", "ENOMEM-strdup"} \cup IoErrnos

\* A loop that asks for item 0 every time.
InfoItem_zero(i) == 0

\* card.c:341: "info.value.enumerated.item = i".
InfoItem(i) == i

\* A loop that goes on to the next index after a rejected ioctl.
InfoQueryFailed_never(out) == FALSE

\* card.c:342, 348: the query or the duplication of the name failed.
InfoQueryFailed(out) == out # "ok"

\* card.c:340-354.  `outs` tells how the query of each index ends; r is the
\* state of the loop: info, the labels collected, the queries issued, the
\* heap, and err once the loop was left with an error.
RECURSIVE InfoLoop(_, _, _, _)
InfoLoop(elem, outs, i, r) ==
    IF i >= r.info.items THEN r
    ELSE LET req   == [r.info EXCEPT !.item = InfoItem(i)]
             out   == outs[i + 1]
             reply == IF out \in IoErrnos THEN req ELSE KernelElemInfo(elem, req)
             q     == [item |-> req.item, res |-> IF out \in IoErrnos THEN out ELSE "ok"]
             r1    == [r EXCEPT !.info = reply, !.queries = Append(@, q)]
         IN  IF InfoQueryFailed(out)
             THEN [r1 EXCEPT !.err = IF out \in IoErrnos THEN out ELSE "ENOMEM",
                             !.heap = InfoStrfreev(@, r.labels),
                             !.labels = <<>>]
             ELSE InfoLoop(elem, outs, i + 1,
                           [r1 EXCEPT !.labels = Append(@, reply.name),
                                      !.heap.strdups = @ + 1])

\* card.c:293-364 for the element `elem` of the kernel, the first ioctl
\* answered with `first`.
get_elem_info(numid, elem, first, outs) ==
    LET info0 == InfoRequest(numid)
        q0    == [item |-> 0, res |-> first]
        info1 == KernelElemInfo(elem, info0)
    IN
    /\ infoId' = numid
    /\ infoElem' = elem
    /\ infoPc' = "done"
    /\ IF first # "ok"
       THEN \* card.c:304-307.
            /\ infoQueries' = <<q0>>
            /\ infoErr' = first
            /\ infoVariant' = NoVariant
            /\ infoHeap' = InfoHeap0
       ELSE IF info1.type # "ENUMERATED"
       THEN \* card.c:309-329.
            /\ infoQueries' = <<q0>>
            /\ infoHeap' = InfoHeap0
            /\ IF InfoClass(info1.type) = "none"
               THEN /\ infoErr' = "ENXIO"
                    /\ infoVariant' = NoVariant
               ELSE /\ infoErr' = "none"
                    /\ infoVariant' = [class |-> InfoClass(info1.type),
                                       labels |-> <<>>, info |-> info1]
       ELSE \* card.c:330-360.
            LET r == InfoLoop(elem, outs, 0,
                              [info |-> info1, labels |-> <<>>, queries |-> <<q0>>,
                               heap |-> [InfoHeap0 EXCEPT !.arrays = 1],
                               err |-> "none"])
            IN  /\ infoQueries' = r.queries
                /\ infoErr' = r.err
                /\ IF r.err # "none"
                   THEN /\ infoVariant' = NoVariant
                        /\ infoHeap' = r.heap
                   ELSE /\ infoVariant' = [class |-> InfoClass(r.info.type),
                                           labels |-> r.labels, info |-> r.info]
                        /\ infoHeap' = InfoStrfreev(r.heap, r.labels)

\* card.c:293-364.
alsactl_card_get_elem_info ==
    /\ UNCHANGED infoFrame
    /\ infoPc = "idle"
    /\ \E numid \in {1, 2}, elem \in KernelElems, first \in {"ok"} \cup IoErrnos :
       \E outs \in [1..elem.items -> InfoOutcomes] :
          get_elem_info(numid, elem, first, outs)

\* The caller takes the result.
InfoReturn ==
    /\ UNCHANGED infoFrame
    /\ infoPc = "done"
    /\ infoPc' = "idle"
    /\ infoId' = 0
    /\ infoElem' = [type |-> "NONE", items |-> 0, base |-> 0]
    /\ infoQueries' = <<>>
    /\ infoVariant' = NoVariant
    /\ infoHeap' = InfoHeap0
    /\ infoErr' = "none"

InfoInit ==
    /\ infoId = 0
    /\ infoElem = [type |-> "NONE", items |-> 0, base |-> 0]
    /\ infoQueries = <<>>
    /\ infoVariant = NoVariant
    /\ infoHeap = InfoHeap0
    /\ infoErr = "none"
    /\ infoPc = "idle"

InfoNext ==
    \/ alsactl_card_get_elem_info
    \/ InfoReturn

(***************************************************************************)
(* The names of the devices of a card (query.c): allocate_sysname,         *)
(* alsactl_get_card_sysname and alsactl_get_control_sysname.               *)
(***************************************************************************)
\* query.c:12-13: the templates, character by character.
CARD_SYSNAME_TEMPLATE == <<"c", "a", "r", "d", "%", "u">>

CONTROL_SYSNAME_TEMPLATE == <<"c", "o", "n", "t", "r", "o", "l", "C", "%", "u">>

\* The characters of the decimal digits.
DigitChars == <<"0", "1", "2", "3", "4", "5", "6", "7", "8", "9">>

DigitChar(d) == DigitChars[d + 1]

\* number > 0, number / 10 and number % 10 of an unsigned int.
U32Positive(u) == u.hi > 0 \/ u.lo > 0

U32Div10(u) == U32(u.hi \div 10, ((u.hi % 10) * 65536 + u.lo) \div 10)

U32Mod10(u) == ((u.hi % 10) * 65536 + u.lo) % 10

\* number * 10 modulo 2^32.
U32Mul10(u) == U32((u.hi * 10 + ((u.lo * 10) \div 65536)) % 65536, (u.lo * 10) % 65536)

\* number - 1 modulo 2^32.
U32Pred(u) ==
    IF u.lo > 0 THEN U32(u.hi, u.lo - 1) ELSE U32((u.hi + 65535) % 65536, 65535)

\* 10^k as an unsigned int.
RECURSIVE U32Pow10(_)
U32Pow10(k) == IF k = 0 THEN U32(0, 1) ELSE U32Mul10(U32Pow10(k - 1))

\* The card ids of the callers: the smallest and the largest number of every
\* number of digits, three in between, and UINT_MAX.
CardIds ==
    {U32Pow10(k) : k \in 0..(MaxDigits - 1)}
    \cup {U32Pred(U32Pow10(k)) : k \in 0..(MaxDigits - 1)}
    \cup {U32(0, 42), U32(1, 0), U32(32768, 0), U32(65535, 65535)}

\* query.c:184-190: "while (number > 0) { number /= 10; ++digits; }".
RECURSIVE SysnameDigits(_)
SysnameDigits(number) ==
    IF U32Positive(number) THEN 1 + SysnameDigits(U32Div10(number)) ELSE 0

\* A length that counts the characters of the name and nothing else.
SysnameLength_exact(template, digits) == Len(template) - 2 + digits

\* query.c:192: "length = strlen(template) + digits".
SysnameLength(template, digits) == Len(template) + digits

\* printf(3), the conversion %u: the decimal digits of an unsigned int, at
\* least one.
RECURSIVE FormatUnsigned(_)
FormatUnsigned(u) ==
    IF U32Positive(U32Div10(u))
    THEN FormatUnsigned(U32Div10(u)) \o <<DigitChar(U32Mod10(u))>>
    ELSE <<DigitChar(U32Mod10(u))>>

\* printf(3): the characters a template with %u conversions stands for.
RECURSIVE Format(_, _)
Format(template, card_id) ==
    IF template = <<>> THEN <<>>
    ELSE IF Len(template) >= 2 /\ template[1] = "%" /\ template[2] = "u"
    THEN FormatUnsigned(card_id) \o Format(SubSeq(template, 3, Len(template)), card_id)
    ELSE <<Head(template)>> \o Format(Tail(template), card_id)

\* snprintf(str, size, ...): at most size - 1 characters of the output and a
\* NUL after them; nothing for a size of 0.
Snprintf(str, size, output) ==
    IF size = 0 THEN str
    ELSE LET n == Min(Len(output), size - 1)
         IN  [i \in 1..Len(str) |->
                 IF i <= n THEN output[i] ELSE IF i = n + 1 THEN NUL ELSE str[i]]

\* g_try_malloc0(n), when it has the memory.
TryMalloc0(n) == [i \in 1..n |-> NUL]

\* query.c:177-199: allocate_sysname; mem tells whether g_try_malloc0 has
\* the memory.
allocate_sysname(template, card_id, mem) ==
    LET digits == SysnameDigits(card_id)
        length == SysnameLength(template, digits)
    IN  IF ~mem
        THEN [err |-> "ENOMEM", sysname |-> <<>>, length |-> length]
        ELSE [err |-> "none",
              sysname |-> Snprintf(TryMalloc0(length + 1), length,
                                   Format(template, card_id)),
              length |-> length]

\* What udev says of a name: the device is there, or the errno of
\* udev_device_new_from_subsystem_sysname (query.c:213-219).
ExistenceReplies == {"ok", "ENODEV", "ENOMEM"}

\* query.c:234-249 and 260-275: the body of alsactl_get_card_sysname and of
\* alsactl_get_control_sysname, which differ in the template.
get_sysname(op, template, card_id, mem, found) ==
    LET a == allocate_sysname(template, card_id, mem) IN
    /\ nameOp' = op
    /\ nameId' = card_id
    /\ nameLength' = a.length
    /\ nameBuf' = a.sysname
    /\ namePc' = "done"
    /\ IF a.err # "none"
       THEN /\ nameHeap' = "none"
            /\ nameOut' = "unset"
            /\ nameErr' = a.err
       ELSE IF found # "ok"
       THEN /\ nameHeap' = "freed"
            /\ nameOut' = "unset"
            /\ nameErr' = found
       ELSE /\ nameHeap' = "live"
            /\ nameOut' = "name"
            /\ nameErr' = "none"

\* query.c:234-249.
alsactl_get_card_sysname ==
    /\ UNCHANGED nameFrame
    /\ namePc = "idle"
    /\ \E card_id \in CardIds, mem \in BOOLEAN, found \in ExistenceReplies :
          get_sysname("card", CARD_SYSNAME_TEMPLATE, card_id, mem, found)

\* query.c:260-275.
alsactl_get_control_sysname ==
    /\ UNCHANGED nameFrame
    /\ namePc = "idle"
    /\ \E card_id \in CardIds, mem \in BOOLEAN, found \in ExistenceReplies :
          get_sysname("control", CONTROL_SYSNAME_TEMPLATE, card_id, mem, found)

\* The caller takes the result, and frees the name it was given.
NameReturn ==
    /\ UNCHANGED nameFrame
    /\ namePc = "done"
    /\ namePc' = "idle"
    /\ nameOp' = "none"
    /\ nameId' = U32(0, 0)
    /\ nameLength' = 0
    /\ nameBuf' = <<>>
    /\ nameHeap' = "none"
    /\ nameOut' = "unset"
    /\ nameErr' = "none"

NameInit ==
    /\ nameOp = "none"
    /\ nameId = U32(0, 0)
    /\ nameLength = 0
    /\ nameBuf = <<>>
    /\ nameHeap = "none"
    /\ nameOut = "unset"
    /\ nameErr = "none"
    /\ namePc = "idle"

NameNext ==
    \/ alsactl_get_card_sysname
    \/ alsactl_get_control_sysname
    \/ NameReturn

Init == ListInit /\ TlvInit /\ AddInit /\ SrcInit /\ InfoInit /\ NameInit

Next ==
    ListNext \/ TlvNext \/ AddNext \/ SrcNext \/ DispNext \/ RaceNext \/ InfoNext
    \/ NameNext

Spec == Init /\ [][Next]_vars

\* The session with the calls of one kind only, everything else at rest.
ListOnlyInit == Init /\ tlvBackend = "echo"

SpecList == ListOnlyInit /\ [][ListNext]_vars

TlvOnlyInit == Init /\ kfirst = 1 /\ kcount = 0

SpecTlv == TlvOnlyInit /\ [][TlvNext]_vars

AddOnlyInit == Init /\ kfirst = 1 /\ kcount = 0 /\ tlvBackend = "echo"

SpecAdd == AddOnlyInit /\ [][AddNext]_vars

SrcOnlyInit == Init /\ kfirst = 1 /\ kcount = 0 /\ tlvBackend = "echo"

SpecSrc == SrcOnlyInit /\ [][SrcNext]_vars

RaceInit == Init /\ kfirst = 1 /\ kcount = 0 /\ tlvBackend = "echo"

SpecRace == RaceInit /\ [][RaceNext]_vars

DispInit == Init /\ kfirst = 1 /\ kcount = 0 /\ tlvBackend = "echo"

SpecDisp == DispInit /\ [][DispNext]_vars

InfoOnlyInit == Init /\ kfirst = 1 /\ kcount = 0 /\ tlvBackend = "echo"

SpecInfo == InfoOnlyInit /\ [][InfoNext]_vars

NameOnlyInit == Init /\ kfirst = 1 /\ kcount = 0 /\ tlvBackend = "echo"

SpecName == NameOnlyInit /\ [][NameNext]_vars

(***************************************************************************)
(* The element listing: C6, C7, C8.                                        *)
(***************************************************************************)
\* The phase-2 ioctls of the running call.
ListQueries == SubSeq(listLog, 2, Len(listLog))

\* The running call ended and the kernel's elements did not change during it.
ListQuietlyDone == listPc = "done" /\ ~listRaced /\ Len(listLog) >= 1

\* Some phase-2 query was answered with fewer entries than it asked for.
ListShortRead ==
    \E i \in 2..Len(listLog) : listLog[i].res = "ok" /\ listLog[i].used < listLog[i].space

\* A phase-2 query was rejected by the kernel.
ListRejected ==
    Len(listLog) >= 2 /\ listLog[Len(listLog)].res \in IoErrnos

\* C6: a listing of N > 1000 elements every ioctl of which succeeds issues,
\* after the phase-1 query, exactly ceil(N / 1000) list queries and returns
\* exactly N identifiers, pairwise distinct, the i-th being the kernel's i-th
\* element.
C6_PagedListing ==
    (ListQuietlyDone /\ listErr = "none" /\ listCount1 > ElemListPage) =>
        /\ Len(ListQueries) = (listCount1 + ElemListPage - 1) \div ElemListPage
        /\ Len(entries) = listCount1
        /\ \A i \in 1..Len(entries) : entries[i] = KernelElemId(kfirst, i - 1)
        /\ Cardinality({entries[i] : i \in 1..Len(entries)}) = listCount1

\* A listing of more than two pages of elements ended without error.
C6_Witness ==
    /\ ListQuietlyDone
    /\ listErr = "none"
    /\ listCount1 > 2 * ElemListPage
    /\ Len(entries) = listCount1

\* C7: when the phase-1 query reports zero elements the call returns an empty
\* sequence and no error after exactly one ioctl: no array is allocated and no
\* phase-2 query is issued.
C7_EmptyListing ==
    (listPc = "done" /\ Len(listLog) >= 1 /\ listLog[1].res = "ok" /\ listCount1 = 0) =>
        /\ entries = <<>>
        /\ listErr = "none"
        /\ Len(listLog) = 1
        /\ idsAlloc = "none"

\* A listing ended whose phase-1 query reported zero elements.
C7_Witness ==
    /\ listPc = "done"
    /\ Len(listLog) = 1
    /\ listLog[1].res = "ok"
    /\ listCount1 = 0
    /\ kcount = 0

\* C8 as stated: after a short read of a phase-2 query the whole call fails
\* with the errno of a rejected ioctl, the array is released and no identifier
\* is returned.
C8_ShortReadFails ==
    (listPc = "done" /\ ListShortRead) =>
        /\ listErr \in IoErrnos
        /\ idsAlloc = "freed"
        /\ entries = <<>>

\* C8 as amended: when a phase-2 query is rejected by the kernel the call
\* fails with the errno of that ioctl, the array is passed to free() and no
\* identifier is returned; a short read is not detected and by itself does not
\* fail the call.
C8_RejectedQueryFails ==
    /\ (listPc \in {"done", "crashed"} /\ ListRejected) =>
            /\ listErr = listLog[Len(listLog)].res
            /\ idsAlloc = "freed"
            /\ entries = <<>>
    /\ (listPc \in {"done", "crashed"} /\ ListShortRead /\ ~ListRejected) =>
            listErr = "none"

\* A listing failed on the rejected query of its second page.
C8_Witness ==
    /\ listPc = "done"
    /\ ListRejected
    /\ Len(listLog) >= 3
    /\ listErr \in IoErrnos

(***************************************************************************)
(* The TLV calls: C3, C4, C5.                                              *)
(***************************************************************************)
\* C3: a read, write or command of a TLV container of fewer than 2 quadlets,
\* or of no container at all (NULL), fails with EINVAL (InvalidArgument) and
\* issues no ioctl.
C3_ShortContainerRejected ==
    (tlvPc = "done" /\ (tlvNull \/ tlvCapacity < 2)) =>
        /\ tlvErr = "EINVAL"
        /\ tlvIoctls = <<>>

\* A read was called with a container of one quadlet.
C3_Witness ==
    /\ tlvPc = "done"
    /\ tlvOp = "read"
    /\ ~tlvNull
    /\ tlvCapacity = 1
    /\ Len(tlvEntry) = 1

\* C4: whatever length the kernel reports back in the packet of a read or a
\* command, the bytes copied into the caller's container and the quadlet count
\* handed back do not exceed the capacity the caller declared on entry.
C4_WithinCapacity ==
    (tlvPc = "done" /\ tlvOp \in {"read", "command"}) =>
        /\ tlvCopied <= 4 * tlvCapacity
        /\ containerCount <= tlvCapacity

\* C5: against a backend that stores what is written to an element and echoes
\* it on read, a read into a container of as many quadlets as were written
\* last to the element hands back the same quadlets in the same order and the
\* same count.
C5_WriteReadRoundTrip ==
    (/\ tlvPc = "done"
     /\ tlvBackend = "echo"
     /\ tlvOp = "read"
     /\ tlvErr = "none"
     /\ tlvCapacity = Len(tlvWritten[tlvId])) =>
        /\ container = tlvWritten[tlvId]
        /\ containerCount = Len(tlvWritten[tlvId])

\* A read handed back the two different quadlets written before.
C5_Witness ==
    /\ tlvPc = "done"
    /\ tlvBackend = "echo"
    /\ tlvOp = "read"
    /\ tlvErr = "none"
    /\ tlvCapacity = Len(tlvWritten[tlvId])
    /\ tlvEntry # tlvWritten[tlvId]
    /\ container = tlvWritten[tlvId]
    /\ container[1] = -1
    /\ container[2] = 258

(***************************************************************************)
(* The addition and replacement of elements: C9, C10.                      *)
(***************************************************************************)
\* C9: an addition or replacement of k elements that succeeds hands back
\* exactly k identifiers, the i-th (i = 0 .. k-1) being the identifier the
\* kernel answered with, its numid and its index both increased by i.
C9_ContiguousIds ==
    (addPc = "done" /\ addErr = "none") =>
        /\ Len(addEntries) = addCount
        /\ \A i \in 1..Len(addEntries) :
              addEntries[i] = ElemId(addBase.numid + (i - 1), addBase.index + (i - 1))

\* Three elements were added and the kernel answered {numid = 10, index = 0}.
C9_Witness ==
    /\ addPc = "done"
    /\ addErr = "none"
    /\ addOp = "add"
    /\ addCount = 3
    /\ addBase = ElemId(10, 0)
    /\ addEntries = <<ElemId(10, 0), ElemId(11, 1), ElemId(12, 2)>>

\* The labels break a limit of the serialization: one is longer than 63
\* bytes, or all of them with their NULs take more than 64 KiB.
LabelsInvalid(labels) ==
    \/ \E i \in 1..Len(labels) : Len(labels[i].label) > 63
    \/ PrepSum(labels) > 64 * 1024

\* C10: for an enumerated info, the serialization of the labels fails with
\* EINVAL (InvalidArgument) exactly when a label is longer than 63 bytes or
\* the labels with their NULs take more than 64 KiB; otherwise the buffer
\* attached to the kernel struct is as long as that sum, holds the labels in
\* order, each followed by one NUL, and items is the number of labels.
C10_LabelSerialization ==
    (addPc = "done" /\ addPrep # "skipped") =>
        /\ (addPrep = "EINVAL") <=> LabelsInvalid(addLabels)
        /\ ~LabelsInvalid(addLabels) =>
              /\ addPrep = "ok"
              /\ ~addHeap.over
              /\ addNames.length = PrepSum(addLabels)
              /\ addNames.bytes = PrepBytes(addLabels)
              /\ addIoctls[1].info.names_length = PrepSum(addLabels)
              /\ addIoctls[1].info.items = LabelCount(addLabels)

(***************************************************************************)
(* The event sources and the subscription: C1, C2.                         *)
(***************************************************************************)
\* The unsubscribe ioctls among the ioctls of the last handler.
Unsubscribes == SelectSeq(srcIoctls, LAMBDA c : c.subscribe = 0)

\* The sources that were handed to a caller and are not finalized.
LiveSources == {s \in SrcIds : sources[s] = "live"}

\* The card was opened once, successfully, and never again.
OpenedOnce == opens = 1 /\ priv.fd >= 0

\* No creation and no finalization is under way.
SrcQuiescent == \A s \in SrcIds : sources[s] \in {"none", "live", "finalized"}

\* C1: with handlers that run one after the other, a finalization of a
\* source issues the unsubscribe ioctl, once, exactly when it takes the
\* subscriber counter from 1 to 0, and then no other source is live; a
\* finalization that leaves the counter above 0 leaves the kernel
\* subscription of a card opened once active; a successful creation, an
\* open and the release of the card issue no unsubscribe.
C1_UnsubscribeOnLastFinalize ==
    /\ srcOp = "ctl_card_finalize_src" =>
          /\ priv.subscribers = srcBefore - 1
          /\ Len(srcIoctls) = Len(Unsubscribes)
          /\ Len(Unsubscribes) = (IF srcBefore = 1 THEN 1 ELSE 0)
          /\ Len(Unsubscribes) = 1 => (priv.subscribers = 0 /\ LiveSources = {})
          /\ (priv.subscribers >= 1 /\ OpenedOnce) => files[priv.fd] = "subscribed"
    /\ (srcOp = "alsactl_card_create_source" /\ srcErr = "none") =>
          Len(Unsubscribes) = 0
    /\ srcOp \in {"alsactl_card_open", "g_object_unref"} => srcIoctls = <<>>
    /\ priv.subscribers = Cardinality(LiveSources)

\* Two sources were created; the first was finalized, then the second, whose
\* finalization took the counter from 1 to 0 and issued the one unsubscribe.
C1_Witness ==
    /\ srcOp = "ctl_card_finalize_src"
    /\ srcSelf = 2
    /\ sources[1] = "finalized"
    /\ sources[2] = "finalized"
    /\ sources[3] = "none"
    /\ srcBefore = 1
    /\ priv.subscribers = 0
    /\ srcIoctls = <<SrcIoctl(3, 0, "ok")>>
    /\ files[3] = "open"

\* C2: with creations and finalizations of sources of one card interleaved,
\* once all of them have completed, a subscriber counter above 0 means that
\* the kernel subscription of the card (opened once) is active.
C2_CountedIsSubscribed ==
    (SrcQuiescent /\ OpenedOnce /\ priv.subscribers > 0) =>
        files[priv.fd] = "subscribed"

(***************************************************************************)
(* The failures of the addition and replacement: C11.                      *)
(***************************************************************************)
\* C11: when prepare_enum_names fails (EINVAL or ENOMEM) the addition or
\* replacement reports that error, has issued no ioctl and hands back no
\* identifier.
C11_NoIoctlAfterFailedLabels ==
    (addPc = "done" /\ addPrep \notin {"skipped", "ok"}) =>
        /\ addPrep \in {"EINVAL", "ENOMEM"}
        /\ addErr = addPrep
        /\ addIoctls = <<>>
        /\ addEntries = <<>>

\* A replacement of two elements whose only label has 64 bytes failed.
C11_Witness ==
    /\ addPc = "done"
    /\ addOp = "replace"
    /\ addCount = 2
    /\ addLabels = <<Run(Label("x", 64), 1)>>
    /\ addPrep = "EINVAL"
    /\ addErr = "EINVAL"
    /\ addIoctls = <<>>
    /\ addEntries = <<>>

(***************************************************************************)
(* The information of an element: C12, C13, C14.                           *)
(***************************************************************************)
\* The type code an object of a class stands for.
ClassType(class) ==
    CASE class = "ALSACTL_TYPE_ELEM_INFO_BOOL"     -> "BOOLEAN"
      [] class = "ALSACTL_TYPE_ELEM_INFO_INT"      -> "INTEGER"
      [] class = "ALSACTL_TYPE_ELEM_INFO_INT64"    -> "INTEGER64"
      [] class = "ALSACTL_TYPE_ELEM_INFO_BYTES"    -> "BYTES"
      [] class = "ALSACTL_TYPE_ELEM_INFO_IEC60958" -> "IEC958"
      [] class = "ALSACTL_TYPE_ELEM_INFO_ENUM"     -> "ENUMERATED"
      [] OTHER                                     -> "no object"

\* The type codes an object is constructed for.
ModelledTypes ==
    {"BOOLEAN", "INTEGER", "INTEGER64", "BYTES", "IEC958", "ENUMERATED"}

\* The call is over and its first ELEM_INFO ioctl was answered.
InfoAnswered == infoPc = "done" /\ infoQueries[1].res = "ok"

\* The queries of the call after the first one: one per label.
LabelQueries == SubSeq(infoQueries, 2, Len(infoQueries))

\* C12: when the kernel answers with one of the six type codes, the object
\* the call hands back is of the class of that code and carries that code
\* (for the five codes other than ENUMERATED the call always hands one
\* back); for any other code the call fails with ENXIO (UnsupportedType)
\* and hands back no object.
C12_VariantMatchesType ==
    InfoAnswered =>
        /\ infoElem.type \in ModelledTypes =>
              /\ infoErr = "none" =>
                    /\ ClassType(infoVariant.class) = infoElem.type
                    /\ infoVariant.info.type = infoElem.type
              /\ infoErr # "none" => infoVariant = NoVariant
              /\ infoElem.type # "ENUMERATED" => infoErr = "none"
        /\ infoElem.type \notin ModelledTypes =>
              /\ infoErr = "ENXIO"
              /\ infoVariant = NoVariant

\* An INTEGER64 element came back as an object of the INT64 class.
C12_Witness ==
    /\ InfoAnswered
    /\ infoElem.type = "INTEGER64"
    /\ infoErr = "none"
    /\ infoVariant.class = "ALSACTL_TYPE_ELEM_INFO_INT64"
    /\ infoVariant.info.type = "INTEGER64"

\* The kernel's type code is none of the six: no object, ENXIO.
C12_WitnessUnsupported ==
    /\ InfoAnswered
    /\ infoElem.type = "UNKNOWN7"
    /\ infoErr = "ENXIO"
    /\ infoVariant = NoVariant

\* C13: a call for an enumerated element with `items` items that succeeds
\* has issued, after the first query, one query per index 0 .. items-1 in
\* increasing order, and the labels of the object are the `items` names the
\* kernel answered with, label i being the name of index i.
C13_LabelsInKernelOrder ==
    (InfoAnswered /\ infoElem.type = "ENUMERATED" /\ infoErr = "none") =>
        /\ LabelQueries = [i \in 1..infoElem.items |-> [item |-> i - 1, res |-> "ok"]]
        /\ infoVariant.labels =
              [i \in 1..infoElem.items |-> ItemName(infoElem.base + i - 1)]
        /\ Len(infoVariant.labels) = infoElem.items

\* The labels "Off", "Low", "High" of the kernel came back in that order.
C13_Witness ==
    /\ InfoAnswered
    /\ infoElem = [type |-> "ENUMERATED", items |-> 3, base |-> 0]
    /\ infoErr = "none"
    /\ Len(infoQueries) = 4
    /\ infoVariant.class = "ALSACTL_TYPE_ELEM_INFO_ENUM"
    /\ infoVariant.labels = <<"Off", "Low", "High">>

\* A query for a label was rejected by the kernel.
LabelQueryRejected ==
    \E i \in 1..Len(LabelQueries) : LabelQueries[i].res \in IoErrnos

\* C14: when a query for a label is rejected, the call fails with the errno
\* of that query, which is the last query it issued; every label it had
\* duplicated and the array of labels are freed, and no object is handed
\* back.
C14_LabelQueryFailure ==
    (infoPc = "done" /\ LabelQueryRejected) =>
        /\ \A i \in 1..Len(LabelQueries) :
              LabelQueries[i].res \in IoErrnos => i = Len(LabelQueries)
        /\ infoErr = LabelQueries[Len(LabelQueries)].res
        /\ infoHeap.freed = infoHeap.strdups
        /\ infoHeap.arrays = 1
        /\ infoHeap.arraysFreed = 1
        /\ infoVariant = NoVariant

\* Of three labels the first was fetched and the query of the second was
\* rejected: one label was duplicated and freed, the third was not asked for.
C14_Witness ==
    /\ infoPc = "done"
    /\ infoElem = [type |-> "ENUMERATED", items |-> 3, base |-> 0]
    /\ LabelQueries = <<[item |-> 0, res |-> "ok"], [item |-> 1, res |-> "ENODEV"]>>
    /\ infoErr = "ENODEV"
    /\ infoHeap = [strdups |-> 1, freed |-> 1, arrays |-> 1, arraysFreed |-> 1]
    /\ infoVariant = NoVariant

(***************************************************************************)
(* The opening and the destruction of the card: C15, C16.                  *)
(***************************************************************************)
\* The card was never opened when the last handler was entered.
WasUnopened == privBefore.fd < 0 /\ privBefore.devnode = "NULL"

\* The open(2) calls among the system calls of the last handler.
OpenCalls == SelectSeq(srcSyscalls, LAMBDA c : c.call = "open")

\* The descriptors of the process that are open.
OpenFds == {f \in Fds : files[f] # "closed"}

\* C15: an open of a card that was never opened, when it fails, leaves the
\* card without a descriptor and without a stored path; when the path was
\* not found it fails with ENODEV (DeviceNotFound) and open(2) was not
\* called, and when open(2) failed it fails with the errno of open(2).
C15_FailedOpenStaysUnopened ==
    (srcOp = "alsactl_card_open" /\ srcErr # "none" /\ WasUnopened) =>
        /\ priv.fd < 0
        /\ priv.devnode = "NULL"
        /\ pathsLive = 0
        /\ OpenFds = {}
        /\ Len(OpenCalls) <= 1
        /\ OpenCalls = <<>> => srcErr = "ENODEV"
        /\ OpenCalls # <<>> => srcErr = OpenCalls[1].res

\* open(2) was called for a card never opened and failed with EPERM.
C15_Witness ==
    /\ srcOp = "alsactl_card_open"
    /\ WasUnopened
    /\ srcErr = "EPERM"
    /\ srcSyscalls = <<[call |-> "open", res |-> "EPERM"]>>
    /\ priv.fd = NoFd
    /\ priv.devnode = "NULL"

\* C16: whatever opens were called, the process holds at most one open
\* descriptor for the card at a time, a card that has a descriptor keeps
\* having one until it is destroyed, and after the destruction every
\* descriptor is closed and every path freed.
C16_OneDescriptorReleasedOnce ==
    /\ Cardinality(OpenFds) <= 1
    /\ pathsLive <= 1
    /\ (cardRefs > 0 /\ privBefore.fd >= 0) => priv.fd >= 0
    /\ cardRefs = 0 => (OpenFds = {} /\ pathsLive = 0)

(***************************************************************************)
(* The failures of the creation of an event source: C17, C18.              *)
(***************************************************************************)
\* C17: a creation of a source on a card without a descriptor fails with
\* ENXIO (NotOpened); no source exists afterwards that did not before, no
\* ioctl was issued, and the subscriber counter and the rest of *priv are
\* what they were.
C17_CreateOnUnopened ==
    (srcOp = "alsactl_card_create_source" /\ privBefore.fd < 0) =>
        /\ srcErr = "ENXIO"
        /\ srcIoctls = <<>>
        /\ priv = privBefore
        /\ sources[srcSelf] = "none"
        /\ cardRefs = 1 + Cardinality(LiveSources)

\* A creation was called on a card that was never opened.
C17_Witness ==
    /\ srcOp = "alsactl_card_create_source"
    /\ WasUnopened
    /\ srcErr = "ENXIO"
    /\ srcIoctls = <<>>
    /\ priv.subscribers = 0
    /\ sources[1] = "none"

\* The last handler was a creation whose subscribe ioctl was rejected.
SubscribeRejected ==
    /\ srcOp = "alsactl_card_create_source"
    /\ srcIoctls # <<>>
    /\ srcIoctls[1].subscribe = 1
    /\ srcIoctls[1].res # "ok"

\* C18: a creation whose subscribe ioctl is rejected fails with the errno of
\* the ioctl and finalizes the source before it returns; the subscriber
\* counter and the reference count of the card are what they were before
\* the call, and when other sources are live the subscription state of the
\* kernel is what it was.
C18_FailedSubscribeRestores ==
    [][ SubscribeRejected' =>
          /\ srcErr' = srcIoctls'[1].res
          /\ sources'[srcSelf'] = "finalized"
          /\ priv'.subscribers = priv.subscribers
          /\ cardRefs' = cardRefs
          /\ LiveSources' = LiveSources
          /\ LiveSources # {} => files' = files ]_vars

\* With one source live and subscribed, the creation of a second one failed
\* with ENODEV: the counter is 1, the card is referenced by its owner and
\* the first source, and the descriptor is subscribed.
C18_Witness ==
    /\ SubscribeRejected
    /\ srcErr = "ENODEV"
    /\ srcSelf = 2
    /\ sources = [s \in SrcIds |-> IF s = 1 THEN "live"
                                   ELSE IF s = 2 THEN "finalized" ELSE "none"]
    /\ priv.subscribers = 1
    /\ cardRefs = 2
    /\ files[priv.fd] = "subscribed"

(***************************************************************************)
(* The dispatch of an event source: C19.                                   *)
(***************************************************************************)
\* C19: a dispatch whose read(2) fails with EAGAIN returns
\* G_SOURCE_CONTINUE, so that the source stays attached; it issues no ioctl
\* and leaves the subscriber counter, and the source, as they were.
C19_WouldBlockContinues ==
    (srcOp = "ctl_card_dispatch_src" /\ srcReads # <<>> /\ srcReads[1].errno = "EAGAIN") =>
        /\ srcRet = "G_SOURCE_CONTINUE"
        /\ attached[srcSelf]
        /\ sources[srcSelf] = "live"
        /\ priv = privBefore
        /\ srcIoctls = <<>>
        /\ Len(srcReads) = 1

\* The only live source was dispatched and its read answered EAGAIN.
C19_Witness ==
    /\ srcOp = "ctl_card_dispatch_src"
    /\ srcSelf = 1
    /\ srcReads = <<SrcRead(3, [len |-> 0 - 1, errno |-> "EAGAIN"], <<>>)>>
    /\ srcRet = "G_SOURCE_CONTINUE"
    /\ attached[1]
    /\ priv.subscribers = 1
    /\ files[3] = "subscribed"

(***************************************************************************)
(* The pages of the element listing: C20.                                  *)
(***************************************************************************)
\* The last ioctl of the running call was a phase-2 query the kernel answered.
ListLastAnswered ==
    /\ listPc \in {"phase2", "done", "crashed"}
    /\ Len(listLog) >= 2
    /\ listLog[Len(listLog)].res = "ok"

\* Every phase-2 query asks for 1 .. 1000 entries.
ListSpacesInPage ==
    \A i \in 1..Len(ListQueries) :
        ListQueries[i].space >= 1 /\ ListQueries[i].space <= ElemListPage

\* The entries the answered phase-2 queries filled are ranges that follow
\* one another from 0 on without gap or overlap and cover 0 .. count-1 of
\* the count the call ends with.
ListRangesCover ==
    /\ ListQueries[1].offset = 0
    /\ \A i \in 1..(Len(ListQueries) - 1) :
          ListQueries[i + 1].offset = ListQueries[i].offset + ListQueries[i].used
    /\ \A idx \in 0..(list.count - 1) :
          \E i \in 1..Len(ListQueries) :
              /\ ListQueries[i].offset <= idx
              /\ idx < ListQueries[i].offset + ListQueries[i].used

\* The call ended without error after at least one phase-2 query.
ListSucceeded ==
    listPc = "done" /\ listErr = "none" /\ Len(listLog) >= 2

\* C20 as stated: every phase-2 query asks for 1 .. 1000 entries at the
\* running offset, an answered query advances the running offset by the
\* number of entries the kernel returned, and on success the filled ranges
\* are contiguous, do not overlap and cover 0 .. count-1.
C20_AdvancedByReturned ==
    /\ ListSpacesInPage
    /\ ListLastAnswered =>
          list.offset = listLog[Len(listLog)].offset + listLog[Len(listLog)].used
    /\ ListSucceeded => ListRangesCover

\* C20 as amended: every phase-2 query asks for 1 .. 1000 entries at the
\* running offset, which starts at 0 and which an answered query advances by
\* the number of entries asked for, whatever the kernel returned; on success
\* the filled ranges are contiguous, do not overlap and cover 0 .. count-1.
C20_AdvancedByRequested ==
    /\ ListSpacesInPage
    /\ Len(ListQueries) >= 1 => ListQueries[1].offset = 0
    /\ \A i \in 1..(Len(ListQueries) - 1) :
          ListQueries[i + 1].offset = ListQueries[i].offset + ListQueries[i].space
    /\ ListLastAnswered =>
          list.offset = listLog[Len(listLog)].offset + listLog[Len(listLog)].space
    /\ ListSucceeded => ListRangesCover

\* A listing of 2001 elements ended after queries for 1000, 1000 and 1.
C20_Witness ==
    /\ ListSucceeded
    /\ ListQueries = <<ListIoctl(0, 1000, 1000, "ok"),
                       ListIoctl(1000, 1000, 1000, "ok"),
                       ListIoctl(2000, 1, 1, "ok")>>
    /\ list.offset = 2001

(***************************************************************************)
(* The count of the element listing: C21.                                  *)
(***************************************************************************)
\* C21: whatever count the kernel reports in a reply of phase 2, every
\* phase-2 query asks for entries inside the array allocated for the count
\* of phase 1 (offset + space <= that count), nothing is written past the
\* array, and a call that succeeds returns as many identifiers as phase 1
\* counted.
C21_TrustsPhaseOneCount ==
    /\ \A i \in 1..Len(ListQueries) :
          ListQueries[i].offset + ListQueries[i].space <= listCount1
    /\ ~oob
    /\ ListSucceeded => Len(entries) = listCount1

(***************************************************************************)
(* The subscriber counter: C22.                                            *)
(***************************************************************************)
\* The sources that were counted by their creation and that no finalization
\* has taken off the counter yet.
CountedSources == {s \in SrcIds : sources[s] \in {"counted", "live", "unref"}}

\* C22: with creations and finalizations interleaved, the subscriber counter
\* is at every moment the number of sources that were counted and not yet
\* taken off by their finalization; it is never negative, and the property
\* "subscribed" reads TRUE exactly when the counter is above 0.
C22_CounterIsLiveSources ==
    /\ priv.subscribers = Cardinality(CountedSources)
    /\ priv.subscribers >= 0
    /\ srcOp = "ctl_card_get_property" =>
          ((srcRet = "TRUE") <=> (priv.subscribers > 0))

\* Of two sources the first was finalized; the property reads TRUE.
C22_Witness ==
    /\ srcOp = "ctl_card_get_property"
    /\ srcRet = "TRUE"
    /\ priv.subscribers = 1
    /\ sources[1] = "finalized"
    /\ sources[2] = "live"

\* No source is counted; the property reads FALSE.
C22_WitnessUnsubscribed ==
    /\ srcOp = "ctl_card_get_property"
    /\ srcRet = "FALSE"
    /\ priv.subscribers = 0
    /\ sources[1] = "finalized"

(***************************************************************************)
(* The descriptor during the life of a source: C23.                        *)
(***************************************************************************)
\* The sources that were created and are not finalized.
UnfinalizedSources == {s \in SrcIds : sources[s] \notin {"none", "finalized"}}

\* C23: while a source of the card is not finalized the card is not
\* destroyed and priv->fd is a descriptor that is open; the unsubscribe
\* ioctl of a finalization is issued on a descriptor that is open.
C23_DescriptorOutlivesSources ==
    /\ UnfinalizedSources # {} =>
          /\ cardRefs > 0
          /\ priv.fd \in Fds
          /\ files[priv.fd] # "closed"
    /\ \A i \in 1..Len(Unsubscribes) :
          Unsubscribes[i].fd \in Fds /\ Unsubscribes[i].res # "EBADF"

(***************************************************************************)
(* The readiness of an event source: C24.                                  *)
(***************************************************************************)
\* The last handler was a loop iteration for an attached source.
LoopIterated == srcOp \in {"ctl_card_dispatch_src", "ctl_card_check_src"}

\* C24: in every loop iteration the prepare function of the source returns
\* FALSE with a timeout of 500; the source is dispatched, and read(2) is
\* called, only in an iteration in which the descriptor reported G_IO_IN or
\* G_IO_ERR.
C24_DispatchedOnlyWhenReadable ==
    /\ LoopIterated => srcPrep = [called |-> TRUE, ready |-> FALSE, timeout |-> 500]
    /\ srcOp = "ctl_card_dispatch_src" => srcCond \cap {"IN", "ERR"} # {}
    /\ srcOp = "ctl_card_check_src" =>
          (srcCond \cap {"IN", "ERR"} = {} /\ srcRet = "none")
    /\ srcReads # <<>> =>
          (srcOp = "ctl_card_dispatch_src" /\ srcCond \cap {"IN", "ERR"} # {})

\* The source was dispatched in an iteration in which the descriptor
\* reported G_IO_IN, and it read one record.
C24_Witness ==
    /\ srcOp = "ctl_card_dispatch_src"
    /\ srcPrep = [called |-> TRUE, ready |-> FALSE, timeout |-> 500]
    /\ srcCond = {"IN"}
    /\ Len(srcReads) = 1
    /\ srcReads[1].len = RecordSize

\* The descriptor reported G_IO_HUP only: the source was not dispatched.
C24_WitnessNotReady ==
    /\ srcOp = "ctl_card_check_src"
    /\ srcCond = {"HUP"}
    /\ srcReads = <<>>

(***************************************************************************)
(* The dispatch of an event source: C25, C26, C27.                         *)
(***************************************************************************)
\* The last handler was a dispatch of a source.
Dispatched == srcOp = "ctl_card_dispatch_src"

\* C25: a source dispatched while its descriptor reports G_IO_ERR, alone or
\* with G_IO_IN, returns G_SOURCE_REMOVE, is detached, and has called no
\* read(2).
C25_ErrorRemovesWithoutRead ==
    (Dispatched /\ "ERR" \in srcCond) =>
        /\ srcRet = "G_SOURCE_REMOVE"
        /\ ~attached[srcSelf]
        /\ srcReads = <<>>

\* The descriptor reported G_IO_IN and G_IO_ERR together on an open card.
C25_Witness ==
    /\ Dispatched
    /\ srcCond = {"IN", "ERR"}
    /\ priv.fd \in Fds
    /\ srcRet = "G_SOURCE_REMOVE"
    /\ srcReads = <<>>

\* The dispatch called read(2) and it failed with something else than EAGAIN.
ReadFailedForGood ==
    /\ Len(srcReads) = 1
    /\ srcReads[1].len < 0
    /\ srcReads[1].errno # "EAGAIN"

C26_WitnessPartial ==
    /\ Dispatched
    /\ Len(srcReads) = 1
    /\ srcReads[1].len = RecordSize - 1
    /\ srcRet = "G_SOURCE_CONTINUE"
    /\ attached[srcSelf]

\* C27: for a read of len bytes, 0 <= len <= one page, the loop goes over
\* len \div RecordSize records, the i-th at byte offset (i - 1) * RecordSize,
\* every one of them ends at or before len, the len % RecordSize bytes after
\* the last are part of no record, and the next dispatch starts at offset 0
\* of what it read itself.
C27_FramesWholeRecords ==
    \A i \in 1..Len(srcReads) :
        srcReads[i].len >= 0 =>
            LET r == srcReads[i].records
            IN  /\ srcReads[i].len <= PageSize
                /\ Len(r) = srcReads[i].len \div RecordSize
                /\ \A k \in 1..Len(r) :
                      /\ r[k] = (k - 1) * RecordSize
                      /\ r[k] + RecordSize <= srcReads[i].len
                /\ srcReads[i].len - Len(r) * RecordSize = srcReads[i].len % RecordSize

\* A read of two records and 28 bytes of a third.
C27_Witness ==
    /\ Dispatched
    /\ Len(srcReads) = 1
    /\ srcReads[1].len = 2 * RecordSize + 28
    /\ srcReads[1].records = <<0, RecordSize>>

\* A read of a whole page: 56 records, 64 bytes dropped.
C27_WitnessPage ==
    /\ Dispatched
    /\ Len(srcReads) = 1
    /\ srcReads[1].len = PageSize
    /\ Len(srcReads[1].records) = 56

(***************************************************************************)
(* A rejected TLV read or command: C28.                                    *)
(***************************************************************************)
\* The last call was a read or a command whose ioctl the kernel rejected.
TlvRejected ==
    /\ tlvPc = "done"
    /\ tlvOp \in {"read", "command"}
    /\ tlvIoctls # <<>>
    /\ tlvErr # "none"

\* C28: after alsactl_card_read_elem_tlv or alsactl_card_command_elem_tlv
\* whose ioctl was rejected, the container of the caller holds the quadlets
\* it held at the call and the count is the count of the call.
C28_RejectedLeavesContainer ==
    TlvRejected => (container = tlvEntry /\ containerCount = tlvCapacity)

(***************************************************************************)
(* The memory of the names of an addition: C29.                            *)
(***************************************************************************)
\* C29: a call of alsactl_card_add_elems or alsactl_card_replace_elems that
\* issued its ioctl freed the buffer of names it allocated once, whether
\* the ioctl was rejected or not; a call that did not issue it allocated
\* none; a call for an info that is not enumerated allocated and freed
\* none; and no call, on a new info or on the info of the call before,
\* freed memory it had not allocated.
C29_NamesFreedOnce ==
    addPc = "done" =>
        /\ addHeap.badFrees = 0
        /\ addHeap.allocs \in {0, 1}
        /\ addHeap.frees = addHeap.allocs
        /\ addIoctls = <<>> => addHeap.allocs = 0
        /\ (addIoctls # <<>> /\ addInfo.type = "ENUMERATED") => addHeap.frees = 1
        /\ addInfo.type # "ENUMERATED" => addHeap.allocs = 0
        /\ addInfo.names_ptr # "live"

\* The call was made with the enumerated info of the call before, whose
\* names that call had freed, and its ioctl was rejected.
C29_Witness ==
    /\ addPc = "done"
    /\ addHeap.stale
    /\ addIoctls # <<>>
    /\ addErr \in IoErrnos
    /\ addHeap.allocs = 1
    /\ addHeap.frees = 1

\* The call was made for an info that is not enumerated and issued its ioctl.
C29_WitnessNotEnumerated ==
    /\ addPc = "done"
    /\ addInfo.type = "INTEGER64"
    /\ addIoctls # <<>>
    /\ addHeap.frees = 0

(***************************************************************************)
(* The buffer of a device name: C30.                                       *)
(***************************************************************************)
\* The string a buffer holds: its characters before the first NUL.
RECURSIVE CString(_)
CString(buf) ==
    IF buf = <<>> \/ Head(buf) = NUL THEN <<>>
    ELSE <<Head(buf)>> \o CString(Tail(buf))

\* The number a string of decimal digits stands for, modulo 2^32.
RECURSIVE ParseUnsigned(_)
ParseUnsigned(str) ==
    IF str = <<>> THEN U32(0, 0)
    ELSE U32Add(U32Mul10(ParseUnsigned(SubSeq(str, 1, Len(str) - 1))),
                CHOOSE d \in 0..9 : DigitChar(d) = str[Len(str)])

\* The characters of the template of the call before its "%u".
NamePrefix ==
    IF nameOp = "card" THEN <<"c", "a", "r", "d">>
    ELSE <<"c", "o", "n", "t", "r", "o", "l", "C">>

\* allocate_sysname returned a buffer.
NameAllocated == namePc = "done" /\ nameHeap # "none"

\* C30: for every card id the buffer allocate_sysname returns has length + 1
\* bytes; the string in it is the text of the template before "%u" followed
\* by decimal digits, without a leading zero, that stand for the card id;
\* and the NUL that ends it is inside the buffer.
C30_NameIsWholeAndTerminated ==
    NameAllocated =>
        LET str    == CString(nameBuf)
            digits == SubSeq(str, Len(NamePrefix) + 1, Len(str))
        IN  /\ Len(nameBuf) = nameLength + 1
            /\ Len(str) > Len(NamePrefix)
            /\ SubSeq(str, 1, Len(NamePrefix)) = NamePrefix
            /\ \A i \in 1..Len(digits) : \E d \in 0..9 : digits[i] = DigitChar(d)
            /\ Len(digits) > 1 => digits[1] # "0"
            /\ ParseUnsigned(digits) = nameId
            /\ Len(str) < Len(nameBuf)
            /\ nameBuf[Len(str) + 1] = NUL

\* The name of the control device of the card UINT_MAX: ten digits.
C30_Witness ==
    /\ namePc = "done"
    /\ nameOp = "control"
    /\ nameId = U32(65535, 65535)
    /\ nameOut = "name"
    /\ CString(nameBuf) = <<"c", "o", "n", "t", "r", "o", "l", "C",
                             "4", "2", "9", "4", "9", "6", "7", "2", "9", "5">>

\* The name of the card 0, for which the loop counts no digit.
C30_WitnessZero ==
    /\ namePc = "done"
    /\ nameOp = "card"
    /\ nameId = U32(0, 0)
    /\ nameLength = 6
    /\ CString(nameBuf) = <<"c", "a", "r", "d", "0">>
====
